---- MODULE Spec2Model ----
(***************************************************************************)
(* A model of the Zoho Desk n8n node (nodes/ZohoDesk/ZohoDesk.node.ts):    *)
(* the payload builders and validators, the paginated fetch helper and the *)
(* per-item loop of ZohoDesk.execute.                                      *)
(*                                                                         *)
(* Strings are sequences of one-character strings, so that trimming,       *)
(* splitting and the regular expressions are computed character by         *)
(* character.  JavaScript values are tagged records [t, v] (t is the       *)
(* typeof class), objects are functions from key to value.                 *)
(***************************************************************************)
EXTENDS Integers, Sequences, FiniteSets, TLC

(***************************************************************************)
(* Bounds of the model.                                                    *)
(***************************************************************************)
\* input items of one execute call
MaxItems == 2
\* full pages the remote collection of a list operation holds at most
MaxFullPages == 1
\* largest page size the paginated helper is called with directly
MaxLimit == 3
\* largest remote collection the helper is called against directly
MaxSource == 6

(***************************************************************************)
(* Characters and strings.                                                 *)
(***************************************************************************)
Digit == {"0", "1", "2", "3", "4", "5", "6", "7", "8", "9"}

Lower == {"a", "b", "c", "d", "e", "f", "g", "h", "i", "j", "k", "l", "m",
          "n", "o", "p", "q", "r", "s", "t", "u", "v", "w", "x", "y", "z"}

Upper == {"A", "B", "C", "D", "E", "F", "G", "H", "I", "J", "K", "L", "M",
          "N", "O", "P", "Q", "R", "S", "T", "U", "V", "W", "X", "Y", "Z"}

AlphaNum == Digit \cup Lower \cup Upper

\* String.prototype.trim strips these (the ones the inputs use)
WhiteSpace == {" ", "\t", "\n", "\r"}

\* "." of a regular expression matches anything but a line terminator
LineTerminator == {"\n", "\r"}

RECURSIVE TrimLeft(_)
TrimLeft(s) ==
  IF s = <<>> THEN <<>>
  ELSE IF Head(s) \in WhiteSpace THEN TrimLeft(Tail(s)) ELSE s

RECURSIVE TrimRight(_)
TrimRight(s) ==
  IF s = <<>> THEN <<>>
  ELSE IF s[Len(s)] \in WhiteSpace THEN TrimRight(SubSeq(s, 1, Len(s) - 1)) ELSE s

Trim(s) == TrimRight(TrimLeft(s))

\* s.split(sep): the pieces between the occurrences of the character sep
RECURSIVE Split(_, _)
Split(s, sep) ==
  IF \A k \in 1..Len(s) : s[k] # sep THEN <<s>>
  ELSE LET k == CHOOSE j \in 1..Len(s) :
                  s[j] = sep /\ \A m \in 1..(j - 1) : s[m] # sep
       IN <<SubSeq(s, 1, k - 1)>> \o Split(SubSeq(s, k + 1, Len(s)), sep)

\* the decimal digits of a natural number, as String(n) writes them
RECURSIVE NatToString(_)
NatToString(n) ==
  LET d == <<"0", "1", "2", "3", "4", "5", "6", "7", "8", "9">>
  IN IF n < 10 THEN <<d[n + 1]>> ELSE NatToString(n \div 10) \o <<d[(n % 10) + 1]>>

\* n decimal digits, zero padded
Pad(n, width) ==
  LET s == NatToString(n)
  IN [k \in 1..(width - Len(s)) |-> "0"] \o s

(***************************************************************************)
(* JavaScript values.                                                      *)
(***************************************************************************)
Undefined == [t |-> "undefined", v |-> 0]
Null == [t |-> "null", v |-> 0]
Str(s) == [t |-> "string", v |-> s]
Num(n) == [t |-> "number", v |-> n]
Bool(b) == [t |-> "boolean", v |-> b]
Obj(f) == [t |-> "object", v |-> f]
Arr(a) == [t |-> "array", v |-> a]

EmptyObject == [k \in {} |-> Undefined]

\* o[k] of an object: undefined when the key is absent
Get(o, k) == IF k \in DOMAIN o THEN o[k] ELSE Undefined

\* o[k] = x
Put(o, k, x) == [j \in DOMAIN o \cup {k} |-> IF j = k THEN x ELSE o[j]]

\* ToBoolean(x)
Truthy(x) ==
  CASE x.t = "undefined" -> FALSE
    [] x.t = "null" -> FALSE
    [] x.t = "string" -> x.v # <<>>
    [] x.t = "number" -> x.v # 0
    [] x.t = "boolean" -> x.v
    [] OTHER -> TRUE

\* String(x)
RECURSIVE JsString(_)
RECURSIVE JoinValues(_)
JoinValues(a) ==
  IF a = <<>> THEN <<>>
  ELSE IF Len(a) = 1 THEN JsString(a[1])
  ELSE JsString(a[1]) \o <<",">> \o JoinValues(Tail(a))

JsString(x) ==
  CASE x.t = "string" -> x.v
    [] x.t = "number" -> NatToString(x.v)
    [] x.t = "boolean" -> IF x.v THEN <<"t", "r", "u", "e">> ELSE <<"f", "a", "l", "s", "e">>
    [] x.t = "object" -> <<"[", "o", "b", "j", "e", "c", "t", " ", "O", "b", "j", "e", "c", "t", "]">>
    [] x.t = "array" -> JoinValues(x.v)
    [] x.t = "null" -> <<"n", "u", "l", "l">>
    [] OTHER -> <<"u", "n", "d", "e", "f", "i", "n", "e", "d">>

(***************************************************************************)
(* Program constants.                                                      *)
(***************************************************************************)
MIN_TICKET_ID_LENGTH == 10

EMAIL_MAX_LENGTH == 254

LIST_PAGE_SIZE == 100

HTTP_TOO_MANY_REQUESTS == 429

TICKET_CREATE_OPTIONAL_FIELDS ==
  <<"accountId", "assigneeId", "category", "channel", "email", "language",
    "phone", "productId", "resolution", "status", "subCategory">>

TICKET_UPDATE_OPTIONAL_FIELDS ==
  <<"accountId", "assigneeId", "category", "contactId", "departmentId", "email",
    "language", "phone", "productId", "resolution", "status", "subCategory",
    "subject", "teamId">>

CONTACT_CREATE_OPTIONAL_FIELDS ==
  <<"firstName", "phone", "mobile", "accountId", "twitter", "facebook", "type",
    "description">>

CONTACT_UPDATE_OPTIONAL_FIELDS ==
  <<"firstName", "lastName", "email", "phone", "mobile", "accountId", "twitter",
    "facebook", "type", "description">>

ACCOUNT_CREATE_OPTIONAL_FIELDS ==
  <<"website", "phone", "fax", "industry", "description", "code", "city",
    "country", "state", "street", "zip">>

ACCOUNT_UPDATE_OPTIONAL_FIELDS ==
  <<"accountName", "website", "phone", "fax", "industry", "description", "code",
    "city", "country", "state", "street", "zip">>

\* FIELD_LENGTH_LIMITS: field -> limit
FIELD_LENGTH_LIMITS == [k \in {"email"} |-> EMAIL_MAX_LENGTH]

(***************************************************************************)
(* Regular expressions.                                                    *)
(***************************************************************************)
\* N8N_EXPRESSION_PATTERN: two opening braces, one or more characters that
\* are no line terminator, two closing braces, anywhere in s
N8N_EXPRESSION_PATTERN(s) ==
  \E a \in 1..Len(s) : \E b \in (a + 3)..(Len(s) - 1) :
    /\ s[a] = "{" /\ s[a + 1] = "{"
    /\ s[b] = "}" /\ s[b + 1] = "}"
    /\ \A m \in (a + 2)..(b - 1) : s[m] \notin LineTerminator

\* ZOHO_DESK_ID_PATTERN: ten or more decimal digits and nothing else
ZOHO_DESK_ID_PATTERN(s) ==
  /\ Len(s) >= 10
  /\ \A k \in 1..Len(s) : s[k] \in Digit

\* TICKET_ID_PATTERN: MIN_TICKET_ID_LENGTH or more decimal digits and nothing else
TICKET_ID_PATTERN(s) ==
  /\ Len(s) >= MIN_TICKET_ID_LENGTH
  /\ \A k \in 1..Len(s) : s[k] \in Digit

\* the characters of the local part of RFC5322_EMAIL_PATTERN (all but the
\* grave accent, which a TLA+ string cannot hold and no input below uses)
EmailLocalChar ==
  AlphaNum \cup {".", "!", "#", "$", "%", "&", "'", "*", "+", "/", "=", "?",
                 "^", "_", "{", "|", "}", "~", "-"}

\* a domain label: 1 to 63 letters, digits or hyphens, no hyphen first or last
EmailDomainLabel(l) ==
  /\ Len(l) >= 1 /\ Len(l) <= 63
  /\ l[1] \in AlphaNum /\ l[Len(l)] \in AlphaNum
  /\ \A k \in 1..Len(l) : l[k] \in AlphaNum \cup {"-"}

\* RFC5322_EMAIL_PATTERN: local part, at sign, labels separated by dots
RFC5322_EMAIL_PATTERN(s) ==
  \E a \in 1..Len(s) :
    /\ s[a] = "@"
    /\ a > 1
    /\ \A k \in 1..(a - 1) : s[k] \in EmailLocalChar
    /\ LET labels == Split(SubSeq(s, a + 1, Len(s)), ".")
       IN \A k \in 1..Len(labels) : EmailDomainLabel(labels[k])

(***************************************************************************)
(* Errors.  message is the fixed text of the code's message, args the      *)
(* values the code interpolates into it, statusCode and code the fields of *)
(* HttpError (0: absent).  kind is the error kind of the taxonomy.         *)
(***************************************************************************)
Name(f) == [t |-> "name", v |-> f]

NoError == [kind |-> "none", message |-> "", args |-> <<>>, statusCode |-> 0, code |-> 0]

ApplicationError(kind, message, args) ==
  [kind |-> kind, message |-> message, args |-> args, statusCode |-> 0, code |-> 0]

IsError(e) == e.kind # "none"

\* a local constant: F applied to the value of v, which is computed once
With(v, F(_)) == CHOOSE y \in {F(x) : x \in {v}} : TRUE

(***************************************************************************)
(* JSON.parse, for the JSON texts the inputs use: objects, arrays,         *)
(* strings, natural numbers, true, false, null.                            *)
(***************************************************************************)
JsonWhiteSpace == {" ", "\t", "\n", "\r"}

RECURSIVE SkipWs(_, _)
SkipWs(s, p) ==
  IF p <= Len(s) /\ s[p] \in JsonWhiteSpace THEN SkipWs(s, p + 1) ELSE p

RECURSIVE DigitsEnd(_, _)
DigitsEnd(s, p) == IF p <= Len(s) /\ s[p] \in Digit THEN DigitsEnd(s, p + 1) ELSE p

RECURSIVE StringToNat(_)
StringToNat(s) ==
  IF s = <<>> THEN 0
  ELSE LET d == CHOOSE n \in 0..9 : NatToString(n) = <<s[Len(s)]>>
       IN 10 * StringToNat(SubSeq(s, 1, Len(s) - 1)) + d

JsonFail == [ok |-> FALSE, value |-> Undefined, next |-> 0]

StartsWith(s, p, w) == p + Len(w) - 1 <= Len(s) /\ SubSeq(s, p, p + Len(w) - 1) = w

\* the character an escape sequence stands for: the one after the backslash
\* (the escapes b and u are not modelled; no input uses them)
JsonEscapes ==
  [c \in {"\"", "\\", "/", "n", "r", "t", "f"} |->
     CASE c = "n" -> "\n"
       [] c = "r" -> "\r"
       [] c = "t" -> "\t"
       [] c = "f" -> "\f"
       [] OTHER -> c]

JsonControl == {"\n", "\r", "\t", "\f"}

\* the characters of a string literal from p up to its closing quote,
\* gathered in acc
RECURSIVE JsonChars(_, _, _)
JsonChars(s, p, acc) ==
  IF p > Len(s) \/ s[p] \in JsonControl THEN JsonFail
  ELSE IF s[p] = "\"" THEN [ok |-> TRUE, value |-> Str(acc), next |-> p + 1]
  ELSE IF s[p] = "\\"
  THEN (IF p + 1 <= Len(s) /\ s[p + 1] \in DOMAIN JsonEscapes
        THEN JsonChars(s, p + 2, Append(acc, JsonEscapes[s[p + 1]]))
        ELSE JsonFail)
  ELSE JsonChars(s, p + 1, Append(acc, s[p]))

\* a string literal starting at the quote at p
JsonString(s, p) == JsonChars(s, p + 1, <<>>)

RECURSIVE JsonValue(_, _)
RECURSIVE JsonMembers(_, _, _)
RECURSIVE JsonElements(_, _, _)

\* the members of an object after "{" or ",", gathered in acc
JsonMembers(s, p, acc) ==
  LET k == SkipWs(s, p)
  IN IF k > Len(s) \/ s[k] # "\"" THEN JsonFail
     ELSE LET key == JsonString(s, k)
              c == SkipWs(s, key.next)
          IN IF ~key.ok \/ c > Len(s) \/ s[c] # ":" THEN JsonFail
             ELSE LET val == JsonValue(s, c + 1)
                      e == SkipWs(s, val.next)
                      obj == Put(acc, key.value.v, val.value)
                  IN IF ~val.ok \/ e > Len(s) THEN JsonFail
                     ELSE IF s[e] = "}" THEN [ok |-> TRUE, value |-> Obj(obj), next |-> e + 1]
                     ELSE IF s[e] = "," THEN JsonMembers(s, e + 1, obj)
                     ELSE JsonFail

\* the elements of an array after "[" or ",", gathered in acc
JsonElements(s, p, acc) ==
  LET val == JsonValue(s, p)
      e == SkipWs(s, val.next)
  IN IF ~val.ok \/ e > Len(s) THEN JsonFail
     ELSE IF s[e] = "]" THEN [ok |-> TRUE, value |-> Arr(Append(acc, val.value)), next |-> e + 1]
     ELSE IF s[e] = "," THEN JsonElements(s, e + 1, Append(acc, val.value))
     ELSE JsonFail

JsonValue(s, p) ==
  LET k == SkipWs(s, p)
  IN IF k > Len(s) THEN JsonFail
     ELSE IF s[k] = "{" THEN
            (IF SkipWs(s, k + 1) <= Len(s) /\ s[SkipWs(s, k + 1)] = "}"
             THEN [ok |-> TRUE, value |-> Obj(EmptyObject), next |-> SkipWs(s, k + 1) + 1]
             ELSE JsonMembers(s, k + 1, EmptyObject))
     ELSE IF s[k] = "[" THEN
            (IF SkipWs(s, k + 1) <= Len(s) /\ s[SkipWs(s, k + 1)] = "]"
             THEN [ok |-> TRUE, value |-> Arr(<<>>), next |-> SkipWs(s, k + 1) + 1]
             ELSE JsonElements(s, k + 1, <<>>))
     ELSE IF s[k] = "\"" THEN JsonString(s, k)
     ELSE IF s[k] \in Digit THEN
            [ok |-> TRUE, value |-> Num(StringToNat(SubSeq(s, k, DigitsEnd(s, k) - 1))),
             next |-> DigitsEnd(s, k)]
     ELSE IF StartsWith(s, k, <<"t", "r", "u", "e">>) THEN
            [ok |-> TRUE, value |-> Bool(TRUE), next |-> k + 4]
     ELSE IF StartsWith(s, k, <<"f", "a", "l", "s", "e">>) THEN
            [ok |-> TRUE, value |-> Bool(FALSE), next |-> k + 5]
     ELSE IF StartsWith(s, k, <<"n", "u", "l", "l">>) THEN
            [ok |-> TRUE, value |-> Null, next |-> k + 4]
     ELSE JsonFail

\* JSON.parse(s): the value, or a SyntaxError
JSONParse(s) ==
  With(JsonValue(s, 1), LAMBDA r :
    IF r.ok /\ SkipWs(s, r.next) > Len(s)
    THEN [ok |-> TRUE, value |-> r.value]
    ELSE [ok |-> FALSE, value |-> Undefined])

(***************************************************************************)
(* JSON.stringify, for the same values.                                    *)
(***************************************************************************)
\* the characters of a string as a string literal writes them
RECURSIVE JsonQuote(_)
JsonQuote(s) ==
  IF s = <<>> THEN <<>>
  ELSE (CASE Head(s) = "\"" -> <<"\\", "\"">>
          [] Head(s) = "\\" -> <<"\\", "\\">>
          [] Head(s) = "\n" -> <<"\\", "n">>
          [] Head(s) = "\r" -> <<"\\", "r">>
          [] Head(s) = "\t" -> <<"\\", "t">>
          [] Head(s) = "\f" -> <<"\\", "f">>
          [] OTHER -> <<Head(s)>>) \o JsonQuote(Tail(s))

RECURSIVE JSONStringify(_)
RECURSIVE StringifyMembers(_, _)
RECURSIVE StringifyElements(_)

\* the members of object o with the keys in keys, undefined ones left out
StringifyMembers(o, keys) ==
  IF keys = {} THEN <<>>
  ELSE LET k == CHOOSE j \in keys : TRUE
           rest == StringifyMembers(o, keys \ {k})
       IN (<<"\"">> \o JsonQuote(k) \o <<"\"", ":">> \o JSONStringify(o[k]))
            \o (IF rest = <<>> THEN <<>> ELSE <<",">> \o rest)

\* the elements of an array, undefined written as null
StringifyElements(a) ==
  IF a = <<>> THEN <<>>
  ELSE JSONStringify(IF Head(a).t = "undefined" THEN Null ELSE Head(a))
         \o (IF Len(a) = 1 THEN <<>> ELSE <<",">> \o StringifyElements(Tail(a)))

JSONStringify(x) ==
  CASE x.t = "string" -> <<"\"">> \o JsonQuote(x.v) \o <<"\"">>
    [] x.t = "object" ->
         <<"{">> \o StringifyMembers(x.v, {k \in DOMAIN x.v : x.v[k].t # "undefined"})
           \o <<"}">>
    [] x.t = "array" -> <<"[">> \o StringifyElements(x.v) \o <<"]">>
    [] OTHER -> JsString(x)

\* the text of the SyntaxError JSON.parse raises
JSON_SYNTAX_ERROR == "Unexpected token in JSON"

(***************************************************************************)
(* Dates: new Date(text) for the ISO 8601 forms, and Date.toISOString.     *)
(* A time is [day, sec, ms]: days since 1970-01-01, second of the day,     *)
(* millisecond.                                                            *)
(***************************************************************************)
InvalidDate == [ok |-> FALSE, day |-> 0, sec |-> 0, ms |-> 0]

IsLeap(y) == (y % 4 = 0 /\ y % 100 # 0) \/ y % 400 = 0

DaysInMonth(y, m) ==
  IF m = 2 THEN (IF IsLeap(y) THEN 29 ELSE 28)
  ELSE IF m \in {4, 6, 9, 11} THEN 30 ELSE 31

\* the day number of a civil date
DaysFromCivil(y, m, d) ==
  LET yy == IF m <= 2 THEN y - 1 ELSE y
      era == yy \div 400
      yoe == yy - era * 400
      mp == IF m > 2 THEN m - 3 ELSE m + 9
      doy == (153 * mp + 2) \div 5 + d - 1
      doe == yoe * 365 + yoe \div 4 - yoe \div 100 + doy
  IN era * 146097 + doe - 719468

\* the civil date of a day number
CivilFromDays(z0) ==
  LET z == z0 + 719468
      era == z \div 146097
      doe == z - era * 146097
      yoe == (doe - doe \div 1460 + doe \div 36524 - doe \div 146096) \div 365
      doy == doe - (365 * yoe + yoe \div 4 - yoe \div 100)
      mp == (5 * doy + 2) \div 153
      d == doy - (153 * mp + 2) \div 5 + 1
      m == IF mp < 10 THEN mp + 3 ELSE mp - 9
      y == yoe + era * 400 + (IF m <= 2 THEN 1 ELSE 0)
  IN [y |-> y, m |-> m, d |-> d]

AllDigits(s) == \A k \in 1..Len(s) : s[k] \in Digit

\* new Date(text): the date-only form is UTC, a date-time without a zone is
\* local time (tz minutes ahead of UTC), a trailing Z is UTC.  Other texts
\* are implementation-defined in ECMAScript and read as invalid here; the
\* inputs below hold none whose reading differs between engines.
DateParse(s, tz) ==
  LET n == Len(s)
      hasTime == n \in {19, 20, 23, 24}
      hasMs == n \in {23, 24}
      utc == n \in {10, 20, 24}
      shape ==
        /\ n \in {10, 19, 20, 23, 24}
        /\ AllDigits(SubSeq(s, 1, 4)) /\ s[5] = "-"
        /\ AllDigits(SubSeq(s, 6, 7)) /\ s[8] = "-"
        /\ AllDigits(SubSeq(s, 9, 10))
        /\ hasTime =>
             /\ s[11] = "T"
             /\ AllDigits(SubSeq(s, 12, 13)) /\ s[14] = ":"
             /\ AllDigits(SubSeq(s, 15, 16)) /\ s[17] = ":"
             /\ AllDigits(SubSeq(s, 18, 19))
        /\ hasMs => (s[20] = "." /\ AllDigits(SubSeq(s, 21, 23)))
        /\ (n \in {20, 24}) => s[n] = "Z"
  IN IF ~shape THEN InvalidDate
     ELSE LET y == StringToNat(SubSeq(s, 1, 4))
              m == StringToNat(SubSeq(s, 6, 7))
              d == StringToNat(SubSeq(s, 9, 10))
              hh == IF hasTime THEN StringToNat(SubSeq(s, 12, 13)) ELSE 0
              mi == IF hasTime THEN StringToNat(SubSeq(s, 15, 16)) ELSE 0
              ss == IF hasTime THEN StringToNat(SubSeq(s, 18, 19)) ELSE 0
              ms == IF hasMs THEN StringToNat(SubSeq(s, 21, 23)) ELSE 0
              total == hh * 3600 + mi * 60 + ss - (IF utc THEN 0 ELSE tz * 60)
              carry == IF total < 0 THEN -1 ELSE IF total >= 86400 THEN 1 ELSE 0
          IN IF m \notin 1..12 \/ d \notin 1..DaysInMonth(y, m)
                \/ hh > 23 \/ mi > 59 \/ ss > 59
             THEN InvalidDate
             ELSE [ok |-> TRUE, day |-> DaysFromCivil(y, m, d) + carry,
                   sec |-> total - carry * 86400, ms |-> ms]

\* Date.prototype.toISOString: YYYY-MM-DDTHH:mm:ss.sssZ
toISOString(date) ==
  LET c == CivilFromDays(date.day)
  IN Pad(c.y, 4) \o <<"-">> \o Pad(c.m, 2) \o <<"-">> \o Pad(c.d, 2) \o <<"T">>
     \o Pad(date.sec \div 3600, 2) \o <<":">> \o Pad((date.sec % 3600) \div 60, 2)
     \o <<":">> \o Pad(date.sec % 60, 2) \o <<".">> \o Pad(date.ms, 3) \o <<"Z">>

(***************************************************************************)
(* The validators.  One that can throw returns [err, value]: err is the    *)
(* error thrown, or NoError with the value returned.                       *)
(***************************************************************************)
isPlainObject(value) == value.t = "object"

RECURSIVE TrimEach(_)
TrimEach(parts) ==
  IF parts = <<>> THEN <<>> ELSE <<Trim(Head(parts))>> \o TrimEach(Tail(parts))

RECURSIVE NonEmptyOnly(_)
NonEmptyOnly(parts) ==
  IF parts = <<>> THEN <<>>
  ELSE (IF Len(Head(parts)) > 0 THEN <<Head(parts)>> ELSE <<>>) \o NonEmptyOnly(Tail(parts))

\* a variant that keeps the empty segments
parseCommaSeparatedListKeepsEmpty(value) ==
  IF ~Truthy(value) THEN <<>>
  ELSE TrimEach(Split(value.v, ","))

parseCommaSeparatedList(value) ==
  IF ~Truthy(value) THEN <<>>
  ELSE NonEmptyOnly(TrimEach(Split(value.v, ",")))

\* maxLength 0 stands for undefined: both are falsy in "maxLength && ..."
validateFieldLength(value, maxLength, fieldName) ==
  IF maxLength # 0 /\ Len(value) > maxLength
  THEN [err |-> ApplicationError("FieldTooLong",
                  "{0} exceeds maximum length of {1} characters ({2} provided). Please shorten your input and try again.",
                  <<Name(fieldName), Num(maxLength), Num(Len(value))>>),
        value |-> value]
  ELSE [err |-> NoError, value |-> value]

isValidTicketId(ticketId) ==
  LET trimmed == Trim(ticketId)
  IN IF N8N_EXPRESSION_PATTERN(trimmed) THEN TRUE ELSE TICKET_ID_PATTERN(trimmed)

\* returns true or throws: the error thrown, NoError when it returns
isValidZohoDeskId(id, fieldName) ==
  LET trimmed == Trim(id)
  IN IF N8N_EXPRESSION_PATTERN(trimmed) THEN NoError
     ELSE IF ~ZOHO_DESK_ID_PATTERN(trimmed)
     THEN ApplicationError("InvalidIdentifierFormat",
            "Invalid {0} format: \"{1}\". {0} must be a numeric value with at least 10 digits.",
            <<Name(fieldName), Str(trimmed)>>)
     ELSE NoError

\* a variant that returns a parseable date as it was given
convertDateToTimestampKeepsInput(dateString, fieldName, tz) ==
  IF dateString = <<>> \/ Trim(dateString) = <<>> \/ ~DateParse(dateString, tz).ok
  THEN [err |-> ApplicationError("InvalidDueDate",
                  "Invalid {0} format: \"{1}\". Expected ISO 8601 format (e.g., \"2025-11-20T10:30:00.000Z\").",
                  <<Name(fieldName), Str(dateString)>>),
        value |-> <<>>]
  ELSE [err |-> NoError, value |-> dateString]

convertDateToTimestamp(dateString, fieldName, tz) ==
  IF dateString = <<>> \/ Trim(dateString) = <<>>
  THEN [err |-> ApplicationError("InvalidDueDate",
                  "{0} cannot be empty. Expected ISO 8601 format (e.g., \"2025-11-20T10:30:00.000Z\").",
                  <<Name(fieldName)>>),
        value |-> <<>>]
  ELSE With(DateParse(dateString, tz), LAMBDA date :
         IF ~date.ok
         THEN [err |-> ApplicationError("InvalidDueDate",
                         "Invalid {0} format: \"{1}\". Expected ISO 8601 format (e.g., \"2025-11-20T10:30:00.000Z\").",
                         <<Name(fieldName), Str(dateString)>>),
               value |-> <<>>]
         ELSE [err |-> NoError, value |-> toISOString(date)])

\* a variant that tests the shape alone
isValidEmailShapeOnly(email) == RFC5322_EMAIL_PATTERN(email)

isValidEmail(email) ==
  RFC5322_EMAIL_PATTERN(email) /\ Len(email) <= FIELD_LENGTH_LIMITS["email"]

(***************************************************************************)
(* The payload builders.  A builder that can throw returns [err, body]:    *)
(* err is the error thrown (the body is then what the caller discards).    *)
(***************************************************************************)
\* run the next step of a builder unless the previous one threw
Bind(r, F(_)) == With(r, LAMBDA x : IF IsError(x.err) THEN x ELSE F(x.body))

Built(body) == [err |-> NoError, body |-> body]

Thrown(e, body) == [err |-> e, body |-> body]

\* field.endsWith('Id'), for the field names of the field lists
EndsWithId(field) ==
  field \in {"accountId", "assigneeId", "contactId", "departmentId", "productId", "teamId"}

\* a variant without the isPlainObject check
parseCustomFieldsUnchecked(cf) ==
  With(IF cf.t = "string" THEN JSONParse(cf.v) ELSE [ok |-> TRUE, value |-> cf],
    LAMBDA parse :
      IF ~parse.ok
      THEN Thrown(ApplicationError("CustomFieldsInvalid",
             "Custom fields must be valid JSON. Parse error: {0}. Please ensure your JSON is properly formatted, e.g., {\"cf_field\": \"value\"}.",
             <<Name(JSON_SYNTAX_ERROR)>>), EmptyObject)
      ELSE Built(parse.value.v))

\* a variant that keeps the entries whose value is null
parseCustomFieldsKeepsNull(cf) ==
  With(IF cf.t = "string" THEN JSONParse(cf.v) ELSE [ok |-> TRUE, value |-> cf],
    LAMBDA parse :
      IF ~parse.ok
      THEN Thrown(ApplicationError("CustomFieldsInvalid",
             "Custom fields must be valid JSON. Parse error: {0}. Please ensure your JSON is properly formatted, e.g., {\"cf_field\": \"value\"}.",
             <<Name(JSON_SYNTAX_ERROR)>>), EmptyObject)
      ELSE IF ~isPlainObject(parse.value)
      THEN Thrown(ApplicationError("CustomFieldsInvalid",
             "Custom fields must be a JSON object, not an array or primitive value.",
             <<>>), EmptyObject)
      ELSE Built([k \in {j \in DOMAIN parse.value.v : parse.value.v[j].t # "undefined"} |->
                    parse.value.v[k]]))

parseCustomFields(cf) ==
  With(IF cf.t = "string" THEN JSONParse(cf.v) ELSE [ok |-> TRUE, value |-> cf],
    LAMBDA parse :
      LET parsed == parse.value
          kept == {k \in DOMAIN parsed.v : parsed.v[k].t \notin {"null", "undefined"}}
          checks == {validateFieldLength(parsed.v[k].v, 0, "Custom field").err :
                       k \in {j \in DOMAIN parsed.v : parsed.v[j].t = "string"}}
      IN IF ~parse.ok
         THEN Thrown(ApplicationError("CustomFieldsInvalid",
                "Custom fields must be valid JSON. Parse error: {0}. Please ensure your JSON is properly formatted, e.g., {\"cf_field\": \"value\"}.",
                <<Name(JSON_SYNTAX_ERROR)>>), EmptyObject)
         ELSE IF ~isPlainObject(parsed)
         THEN Thrown(ApplicationError("CustomFieldsInvalid",
                "Custom fields must be a JSON object, not an array or primitive value.",
                <<>>), EmptyObject)
         ELSE IF \E e \in checks : IsError(e)
         THEN Thrown(CHOOSE e \in checks : IsError(e), EmptyObject)
         ELSE Built([k \in kept |->
                      IF parsed.v[k].t = "string"
                      THEN Str(validateFieldLength(parsed.v[k].v, 0, "Custom field").value)
                      ELSE parsed.v[k]]))

\* a variant that skips empty values
RECURSIVE addOptionalFieldsDropsEmpty(_, _, _)
addOptionalFieldsDropsEmpty(body, source, fields) ==
  IF fields = <<>> THEN Built(body)
  ELSE LET field == Head(fields)
           x == Get(source, field)
       IN IF ~Truthy(x) THEN addOptionalFieldsDropsEmpty(body, source, Tail(fields))
          ELSE addOptionalFieldsDropsEmpty(Put(body, field, x), source, Tail(fields))

\* a variant that leaves a key alone that the body already has
RECURSIVE addOptionalFieldsKeepsExisting(_, _, _)
addOptionalFieldsKeepsExisting(body, source, fields) ==
  IF fields = <<>> THEN Built(body)
  ELSE LET field == Head(fields)
           x == Get(source, field)
       IN IF x.t = "undefined" \/ field \in DOMAIN body
          THEN addOptionalFieldsKeepsExisting(body, source, Tail(fields))
          ELSE addOptionalFieldsKeepsExisting(Put(body, field, x), source, Tail(fields))

RECURSIVE addOptionalFields(_, _, _)
addOptionalFields(body, source, fields) ==
  IF fields = <<>> THEN Built(body)
  ELSE LET field == Head(fields)
           x == Get(source, field)
       IN IF x.t = "undefined" THEN addOptionalFields(body, source, Tail(fields))
          ELSE IF x.t = "string"
          THEN LET idCheck == IF EndsWithId(field) /\ Trim(x.v) # <<>>
                              THEN isValidZohoDeskId(x.v, field)
                              ELSE NoError
                   maxLength == IF field \in DOMAIN FIELD_LENGTH_LIMITS
                                THEN FIELD_LENGTH_LIMITS[field]
                                ELSE 0
                   checked == validateFieldLength(x.v, maxLength, field)
               IN IF IsError(idCheck) THEN Thrown(idCheck, body)
                  ELSE IF IsError(checked.err) THEN Thrown(checked.err, body)
                  ELSE addOptionalFields(Put(body, field, Str(checked.value)), source,
                                         Tail(fields))
          ELSE addOptionalFields(Put(body, field, x), source, Tail(fields))

addContactField(contact, contactValues, fieldName, fieldLabel, maxLength) ==
  LET x == Get(contactValues, fieldName)
  IN IF x.t \in {"undefined", "null"} THEN Built(contact)
     ELSE IF x.t \notin {"string", "number"}
     THEN Thrown(ApplicationError("ContactFieldInvalid",
            "Contact validation failed: {0} must be a string or number, not a complex object.",
            <<Name(fieldLabel)>>), contact)
     ELSE With(Trim(JsString(x)), LAMBDA fieldStr :
       IF fieldStr = <<>> THEN Built(contact)
       ELSE With(validateFieldLength(fieldStr, maxLength, fieldLabel), LAMBDA cleaned :
         IF IsError(cleaned.err) THEN Thrown(cleaned.err, contact)
         ELSE IF fieldName = "email" /\ ~isValidEmail(cleaned.value)
         THEN Thrown(ApplicationError("InvalidEmailFormat",
                "Contact validation failed: Invalid email format \"{0}\".",
                <<Str(cleaned.value)>>), contact)
         ELSE Built(Put(contact, fieldName, Str(cleaned.value)))))

\* the dueDate and priority part (update only)
addPriorityAndDueDate(body, fields, tz) ==
  LET dueDateValue == Get(fields, "dueDate")
      b1 == IF dueDateValue.t = "undefined" THEN Built(body)
            ELSE IF Truthy(dueDateValue) /\ Trim(dueDateValue.v) # <<>>
            THEN With(convertDateToTimestamp(dueDateValue.v, "Due Date", tz),
                   LAMBDA converted :
                     IF IsError(converted.err) THEN Thrown(converted.err, body)
                     ELSE Built(Put(body, "dueDate", Str(converted.value))))
            ELSE Built(Put(body, "dueDate", Str(<<>>)))
  IN Bind(b1, LAMBDA b : IF Get(fields, "priority").t # "undefined"
                         THEN Built(Put(b, "priority", Get(fields, "priority")))
                         ELSE Built(b))

addCommonTicketFields(body, fields, includePriorityAndDueDate, tz) ==
  LET b1 == IF includePriorityAndDueDate THEN addPriorityAndDueDate(body, fields, tz)
            ELSE Built(body)
      secondaryContacts == Get(fields, "secondaryContacts")
  IN Bind(Bind(b1,
       LAMBDA b : IF secondaryContacts.t # "string" THEN Built(b)
                  ELSE With(parseCommaSeparatedList(secondaryContacts), LAMBDA contacts :
                         IF Len(contacts) > 0
                         THEN Built(Put(b, "secondaryContacts",
                                        Arr([k \in 1..Len(contacts) |-> Str(contacts[k])])))
                         ELSE Built(b))),
       LAMBDA b : IF Get(fields, "cf").t = "undefined" THEN Built(b)
                  ELSE With(parseCustomFields(Get(fields, "cf")), LAMBDA cf :
                         IF IsError(cf.err) THEN Thrown(cf.err, b)
                         ELSE Built(Put(b, "cf", Obj(cf.body)))))

(***************************************************************************)
(* Requests.  A request handed to the transport is                         *)
(* [method, endpoint, id, body, qs, orgId, baseUrl]: endpoint is the path  *)
(* with {id} where the (URI-encoded) identifier id goes.                   *)
(***************************************************************************)
UriUnreserved == AlphaNum \cup {"-", "_", ".", "!", "~", "*", "'", "(", ")"}

\* the escapes of the other characters the inputs use
UriEscape(c) ==
  CASE c = " " -> <<"%", "2", "0">>
    [] c = "\t" -> <<"%", "0", "9">>
    [] c = "{" -> <<"%", "7", "B">>
    [] c = "}" -> <<"%", "7", "D">>
    [] c = "$" -> <<"%", "2", "4">>
    [] c = "@" -> <<"%", "4", "0">>
    [] c = "," -> <<"%", "2", "C">>
    [] c = "/" -> <<"%", "2", "F">>
    [] c = ":" -> <<"%", "3", "A">>
    [] c = "\n" -> <<"%", "0", "A">>
    [] OTHER -> <<"%", "3", "F">>

RECURSIVE encodeURIComponent(_)
encodeURIComponent(s) ==
  IF s = <<>> THEN <<>>
  ELSE (IF Head(s) \in UriUnreserved THEN <<Head(s)>> ELSE UriEscape(Head(s)))
       \o encodeURIComponent(Tail(s))

Request(method, endpoint, id, body, qs) ==
  [method |-> method, endpoint |-> endpoint, id |-> id, body |-> body, qs |-> qs]

\* what execute does with an item once its inputs are validated:
\* mode "single" (one request, push the response or a success record),
\* "list" (one request, push each element of response.data) or
\* "all" (getAllPaginatedItems, push each item)
Plan(mode, onSuccess, req) == [mode |-> mode, onSuccess |-> onSuccess, req |-> req]

Param(p, name) == Get(p, name)

TicketIdError(ticketId) ==
  ApplicationError("InvalidIdentifierFormat",
    "Invalid ticket ID format: \"{0}\". Ticket ID must be a numeric value.",
    <<Str(ticketId)>>)

\* a variant without the email-or-lastName check
BuildTicketContactAnyField(body, contactData) ==
  LET contactValues == Get(contactData.v, "contactValues")
      c1 == addContactField(EmptyObject, contactValues.v, "email", "email",
                            FIELD_LENGTH_LIMITS["email"])
      c2 == Bind(c1, LAMBDA c : addContactField(c, contactValues.v, "lastName", "lastName", 0))
      c3 == Bind(c2, LAMBDA c : addContactField(c, contactValues.v, "firstName", "firstName", 0))
      c4 == Bind(c3, LAMBDA c : addContactField(c, contactValues.v, "phone", "phone", 0))
  IN IF ~(Truthy(contactData) /\ contactData.t = "object" /\ Truthy(contactValues)
          /\ isPlainObject(contactValues))
     THEN Built(body)
     ELSE Bind(c4, LAMBDA contact : Built(Put(body, "contact", Obj(contact))))

\* a variant that applies the email-or-lastName check to every fragment
BuildTicketContactRequired(body, contactData) ==
  LET contactValues == Get(contactData.v, "contactValues")
      c1 == addContactField(EmptyObject, contactValues.v, "email", "email",
                            FIELD_LENGTH_LIMITS["email"])
      c2 == Bind(c1, LAMBDA c : addContactField(c, contactValues.v, "lastName", "lastName", 0))
      c3 == Bind(c2, LAMBDA c : addContactField(c, contactValues.v, "firstName", "firstName", 0))
      c4 == Bind(c3, LAMBDA c : addContactField(c, contactValues.v, "phone", "phone", 0))
  IN IF ~(Truthy(contactData) /\ contactData.t = "object" /\ Truthy(contactValues))
     THEN Built(body)
     ELSE IF ~isPlainObject(contactValues)
     THEN Thrown(ApplicationError("ContactValidationFailed",
            "Contact validation failed: Invalid contact data format.", <<>>), body)
     ELSE With(c4, LAMBDA contact :
       IF IsError(contact.err) THEN Thrown(contact.err, body)
       ELSE IF ~Truthy(Get(contact.body, "email")) /\ ~Truthy(Get(contact.body, "lastName"))
       THEN Thrown(ApplicationError("ContactValidationFailed",
              "Contact validation failed: Either email or lastName must be provided.",
              <<>>), body)
       ELSE Built(Put(body, "contact", Obj(contact.body))))

\* the contact part of ticket create
BuildTicketContact(body, contactData) ==
  LET contactValues == Get(contactData.v, "contactValues")
      hasNonEmptyValue ==
        \E k \in DOMAIN contactValues.v :
          Truthy(contactValues.v[k]) /\ Trim(JsString(contactValues.v[k])) # <<>>
      c1 == addContactField(EmptyObject, contactValues.v, "email", "email",
                            FIELD_LENGTH_LIMITS["email"])
      c2 == Bind(c1, LAMBDA c : addContactField(c, contactValues.v, "lastName", "lastName", 0))
      c3 == Bind(c2, LAMBDA c : addContactField(c, contactValues.v, "firstName", "firstName", 0))
      c4 == Bind(c3, LAMBDA c : addContactField(c, contactValues.v, "phone", "phone", 0))
  IN IF ~(Truthy(contactData) /\ contactData.t = "object" /\ Truthy(contactValues))
     THEN Built(body)
     ELSE IF ~isPlainObject(contactValues)
     THEN Thrown(ApplicationError("ContactValidationFailed",
            "Contact validation failed: Invalid contact data format.", <<>>), body)
     ELSE IF ~hasNonEmptyValue THEN Built(body)
     ELSE With(c4, LAMBDA contact :
       IF IsError(contact.err) THEN Thrown(contact.err, body)
       ELSE IF ~Truthy(Get(contact.body, "email")) /\ ~Truthy(Get(contact.body, "lastName"))
       THEN Thrown(ApplicationError("ContactValidationFailed",
              "Contact validation failed: Either email or lastName must be provided.",
              <<>>), body)
       ELSE Built(Put(body, "contact", Obj(contact.body))))

\* ticket create: the body of the POST /tickets request
BuildTicketCreate(p, tz) ==
  LET departmentId == Param(p, "departmentId")
      teamId == Param(p, "teamId")
      subject == validateFieldLength(Param(p, "subject").v, 0, "Subject")
      dueDate == Param(p, "dueDate")
      description == Param(p, "description")
      additionalFields == Param(p, "additionalFields").v
      b0 == [k \in {"departmentId", "subject", "priority", "classification"} |->
               CASE k = "departmentId" -> departmentId
                 [] k = "subject" -> Str(subject.value)
                 [] k = "priority" -> Param(p, "priority")
                 [] OTHER -> Param(p, "classification")]
      b1 == IF Truthy(teamId) /\ Trim(teamId.v) # <<>> THEN Put(b0, "teamId", teamId) ELSE b0
      b2 == IF Truthy(dueDate) /\ Trim(dueDate.v) # <<>>
            THEN With(convertDateToTimestamp(dueDate.v, "Due Date", tz), LAMBDA converted :
                   IF IsError(converted.err) THEN Thrown(converted.err, b1)
                   ELSE Built(Put(b1, "dueDate", Str(converted.value))))
            ELSE Built(b1)
      b3 == Bind(b2, LAMBDA b :
              IF Truthy(description)
              THEN Built(Put(b, "description",
                             Str(validateFieldLength(description.v, 0, "Description").value)))
              ELSE Built(b))
      b4 == Bind(b3, LAMBDA b : BuildTicketContact(b, Param(p, "contact")))
      b5 == Bind(b4, LAMBDA b : addCommonTicketFields(b, additionalFields, FALSE, tz))
  IN Bind(b5, LAMBDA b : addOptionalFields(b, additionalFields, TICKET_CREATE_OPTIONAL_FIELDS))

\* ticket update: the body of the PATCH /tickets/{id} request
BuildTicketUpdate(p, tz) ==
  LET ticketId == Param(p, "ticketId").v
      description == Param(p, "description")
      updateFields == Param(p, "updateFields").v
      b1 == addCommonTicketFields(EmptyObject, updateFields, TRUE, tz)
      b2 == Bind(b1, LAMBDA b :
              IF Truthy(description)
              THEN Built(Put(b, "description",
                             Str(validateFieldLength(description.v, 0, "Description").value)))
              ELSE Built(b))
  IN IF ~isValidTicketId(ticketId) THEN Thrown(TicketIdError(ticketId), EmptyObject)
     ELSE Bind(b2, LAMBDA b : addOptionalFields(b, updateFields, TICKET_UPDATE_OPTIONAL_FIELDS))

\* the cf part of the contact and account bodies
AddCustomFields(body, fields) ==
  IF Get(fields, "cf").t = "undefined" THEN Built(body)
  ELSE With(parseCustomFields(Get(fields, "cf")), LAMBDA cf :
         IF IsError(cf.err) THEN Thrown(cf.err, body)
         ELSE Built(Put(body, "cf", Obj(cf.body))))

\* contact create: the body of the POST /contacts request
BuildContactCreate(p) ==
  LET lastName == Param(p, "lastName").v
      email == Param(p, "email").v
      additionalFields == Param(p, "additionalFields").v
      checkedEmail == validateFieldLength(email, FIELD_LENGTH_LIMITS["email"], "Email")
      b0 == [k \in {"lastName", "email"} |->
               IF k = "lastName"
               THEN Str(validateFieldLength(lastName, 0, "Last Name").value)
               ELSE Str(checkedEmail.value)]
  IN IF ~isValidEmail(email)
     THEN Thrown(ApplicationError("InvalidEmailFormat", "Invalid email format: \"{0}\".",
                                  <<Str(email)>>), EmptyObject)
     ELSE IF IsError(checkedEmail.err) THEN Thrown(checkedEmail.err, EmptyObject)
     ELSE Bind(addOptionalFields(b0, additionalFields, CONTACT_CREATE_OPTIONAL_FIELDS),
               LAMBDA b : AddCustomFields(b, additionalFields))

\* account create: the body of the POST /accounts request
BuildAccountCreate(p) ==
  LET accountName == Param(p, "accountName").v
      additionalFields == Param(p, "additionalFields").v
      b0 == [k \in {"accountName"} |->
               Str(validateFieldLength(accountName, 0, "Account Name").value)]
  IN Bind(addOptionalFields(b0, additionalFields, ACCOUNT_CREATE_OPTIONAL_FIELDS),
          LAMBDA b : AddCustomFields(b, additionalFields))

\* contact update and account update: the body of the PATCH request
BuildEntityUpdate(p, idParam, idLabel, fields) ==
  LET updateFields == Param(p, "updateFields").v
      idCheck == isValidZohoDeskId(Param(p, idParam).v, idLabel)
  IN IF IsError(idCheck) THEN Thrown(idCheck, EmptyObject)
     ELSE Bind(addOptionalFields(EmptyObject, updateFields, fields),
               LAMBDA b : AddCustomFields(b, updateFields))

\* { ...a, ...b }
Spread(a, b) == [k \in DOMAIN a \cup DOMAIN b |-> IF k \in DOMAIN b THEN b[k] ELSE a[k]]

\* the query parameters ticket list builds from its filters
TicketListQueryParams(filters) ==
  LET q1 == IF Truthy(Get(filters, "departmentId"))
            THEN Put(EmptyObject, "departmentId", Get(filters, "departmentId"))
            ELSE EmptyObject
      q2 == IF Truthy(Get(filters, "assigneeId"))
            THEN Put(q1, "assigneeId", Get(filters, "assigneeId"))
            ELSE q1
  IN IF Truthy(Get(filters, "status")) THEN Put(q2, "status", Get(filters, "status")) ELSE q2

\* a list operation: all pages through getAllPaginatedItems, or one bounded page
ListPlan(p, endpoint, id, queryParams) ==
  IF Param(p, "returnAll").v
  THEN Plan("all", "items", Request("GET", endpoint, id, EmptyObject, queryParams))
  ELSE Plan("list", "items",
            Request("GET", endpoint, id, EmptyObject,
                    Spread([k \in {"from", "limit"} |->
                              IF k = "from" THEN Num(1) ELSE Param(p, "limit")],
                           queryParams)))

\* the ticket operations of execute up to their first request
TicketPlan(operation, p, tz) ==
  LET ticketId == Param(p, "ticketId").v
      encoded == encodeURIComponent(ticketId)
      create == BuildTicketCreate(p, tz)
      update == BuildTicketUpdate(p, tz)
  IN CASE operation = "create" ->
            Bind(create, LAMBDA b :
              Built(Plan("single", "response",
                         Request("POST", "/tickets", <<>>, b, EmptyObject))))
       [] operation = "update" ->
            Bind(update, LAMBDA b :
              Built(Plan("single", "response",
                         Request("PATCH", "/tickets/{id}", encoded, b, EmptyObject))))
       [] operation = "list" ->
            Built(ListPlan(p, "/tickets", <<>>, TicketListQueryParams(Param(p, "filters").v)))
       [] operation \notin {"create", "update", "list"} /\ ~isValidTicketId(ticketId) ->
            Thrown(TicketIdError(ticketId), EmptyObject)
       [] operation = "get" ->
            Built(Plan("single", "response",
                       Request("GET", "/tickets/{id}", encoded, EmptyObject, EmptyObject)))
       [] operation = "delete" ->
            Built(Plan("single", "success",
                       Request("POST", "/tickets/moveToTrash", <<>>,
                               [k \in {"ticketIds"} |-> Arr(<<Str(ticketId)>>)],
                               EmptyObject)))
       [] operation = "addComment" ->
            Built(Plan("single", "response",
                       Request("POST", "/tickets/{id}/comments", encoded,
                               [k \in {"content", "isPublic"} |->
                                  IF k = "content"
                                  THEN Str(validateFieldLength(Param(p, "content").v, 0,
                                                               "Comment Content").value)
                                  ELSE Param(p, "isPublic")],
                               EmptyObject)))
       [] OTHER ->
            Built(ListPlan(p, "/tickets/{id}/conversations", encoded, EmptyObject))

\* the contact and account operations of execute up to their first request
EntityPlan(resource, operation, p) ==
  LET idParam == IF resource = "contact" THEN "contactId" ELSE "accountId"
      idLabel == IF resource = "contact" THEN "Contact ID" ELSE "Account ID"
      idsKey == IF resource = "contact" THEN "contactIds" ELSE "accountIds"
      root == IF resource = "contact" THEN "/contacts" ELSE "/accounts"
      byId == IF resource = "contact" THEN "/contacts/{id}" ELSE "/accounts/{id}"
      trash == IF resource = "contact" THEN "/contacts/moveToTrash" ELSE "/accounts/moveToTrash"
      id == Param(p, idParam).v
      encoded == encodeURIComponent(id)
      create == IF resource = "contact" THEN BuildContactCreate(p) ELSE BuildAccountCreate(p)
      update == BuildEntityUpdate(p, idParam, idLabel,
                  IF resource = "contact" THEN CONTACT_UPDATE_OPTIONAL_FIELDS
                  ELSE ACCOUNT_UPDATE_OPTIONAL_FIELDS)
  IN CASE operation = "create" ->
            Bind(create, LAMBDA b :
              Built(Plan("single", "response", Request("POST", root, <<>>, b, EmptyObject))))
       [] operation = "list" -> Built(ListPlan(p, root, <<>>, EmptyObject))
       [] operation = "update" ->
            Bind(update, LAMBDA b :
              Built(Plan("single", "response", Request("PATCH", byId, encoded, b, EmptyObject))))
       [] operation \notin {"create", "list", "update"} /\ IsError(isValidZohoDeskId(id, idLabel)) ->
            Thrown(isValidZohoDeskId(id, idLabel), EmptyObject)
       [] operation = "get" ->
            Built(Plan("single", "response",
                       Request("GET", byId, encoded, EmptyObject, EmptyObject)))
       [] OTHER ->
            Built(Plan("single", "success",
                       Request("POST", trash, <<>>,
                               [k \in {idsKey} |-> Arr(<<Str(id)>>)], EmptyObject)))

\* the body of the try block of execute for one item, up to its first await:
\* the error thrown, or what is requested
ItemPlan(resource, operation, p, tz) ==
  IF resource = "ticket" THEN TicketPlan(operation, p, tz)
  ELSE EntityPlan(resource, operation, p)

Operations ==
  [ticket |-> {"create", "update", "get", "list", "delete", "addComment", "listThreads"},
   contact |-> {"create", "get", "list", "update", "delete"},
   account |-> {"create", "get", "list", "update", "delete"}]

(***************************************************************************)
(* The inputs: the parameters an input item can hold, per operation.       *)
(***************************************************************************)
VALID_ID == <<"1", "8", "9", "2", "0", "0", "0", "0", "0", "0", "0", "0", "6", "9", "0", "7">>
TEN_DIGITS == <<"1", "2", "3", "4", "5", "6", "7", "8", "9", "0">>
NINE_DIGITS == <<"1", "2", "3", "4", "5", "6", "7", "8", "9">>
PADDED_ID == <<" ">> \o TEN_DIGITS \o <<" ">>
EXPRESSION_ID == <<"{", "{", "$", "j", "s", "o", "n", ".", "i", "d", "}", "}">>
WORD_ID == <<"a", "b", "c">>
\* a placeholder among other characters, one over several lines, an empty one
MIXED_EXPRESSION_ID == WORD_ID \o <<" ", "{", "{", "x", "}", "}", "!">>
MULTILINE_EXPRESSION_ID == <<"{", "{", "\n", "i", "d", "\n", "}", "}">>
EMPTY_EXPRESSION_ID == <<"{", "{", "}", "}">>
BLANK == <<" ">>
EMPTY == <<>>

EMAIL_OK == <<"a", "@", "b", ".", "c", "o", "m">>
EMAIL_BAD == <<"n", "o", "t", "-", "a", "n", "-", "e", "m", "a", "i", "l">>
\* well-formed addresses of exactly the email limit and of one character more
EMAIL_DOMAIN == <<"@", "b", ".", "c", "o", "m">>
EMAIL_AT_LIMIT == [k \in 1..(EMAIL_MAX_LENGTH - Len(EMAIL_DOMAIN)) |-> "a"] \o EMAIL_DOMAIN
EMAIL_OVER_LIMIT == <<"a">> \o EMAIL_AT_LIMIT
\* addresses at the edges of the shape: no dot in the domain, a label that
\* ends in a hyphen, no local part, a blank, an empty label, a line break
\* at the end, a label of 63 and of 64 characters, and 255 characters
\* without an at sign
EMAIL_NO_DOT == <<"a", "@", "b">>
EMAIL_HYPHEN_LAST == <<"a", "@", "b", "-", ".", "c", "o", "m">>
EMAIL_NO_LOCAL == EMAIL_DOMAIN
EMAIL_WITH_BLANK == <<"a", " ", "b">> \o EMAIL_DOMAIN
EMAIL_EMPTY_LABEL == <<"a", "@", "b", ".", ".", "c", "o", "m">>
EMAIL_LINE_END == EMAIL_OK \o <<"\n">>
EMAIL_LABEL_63 == <<"a", "@">> \o [k \in 1..63 |-> "b"]
EMAIL_LABEL_64 == <<"a", "@">> \o [k \in 1..64 |-> "b"]
EMAIL_LONG_NO_AT == [k \in 1..(EMAIL_MAX_LENGTH + 1) |-> "a"]

EmailInputs ==
  {EMAIL_AT_LIMIT, EMAIL_OVER_LIMIT, EMAIL_NO_DOT, EMAIL_HYPHEN_LAST, EMAIL_NO_LOCAL,
   EMAIL_WITH_BLANK, EMAIL_EMPTY_LABEL, EMAIL_LINE_END, EMAIL_LABEL_63, EMAIL_LABEL_64,
   EMAIL_LONG_NO_AT}
DOE == <<"D", "o", "e">>
JANE == <<"J", "a", "n", "e">>
PHONE == <<"5", "5", "5">>
HELP == <<"H", "e", "l", "p">>
HIGH == <<"H", "i", "g", "h">>
OPEN == <<"O", "p", "e", "n">>
TEXT == <<"L", "i", "n", "e", " ", "1", "\n", "L", "i", "n", "e", " ", "2">>

DUE_LOCAL == <<"2", "0", "2", "5", "-", "1", "2", "-", "0", "1", "T",
               "1", "0", ":", "0", "0", ":", "0", "0">>
DUE_UTC == <<"2", "0", "2", "5", "-", "1", "2", "-", "3", "1", "T",
             "2", "3", ":", "3", "0", ":", "0", "0", ".", "2", "5", "0", "Z">>
DUE_BAD == <<"n", "e", "x", "t", " ", "w", "e", "e", "k">>

TAGS == <<"u", "r", "g", "e", "n", "t", ",", " ", "b", "i", "l", "l", "i", "n", "g">>
SECONDARY == <<"a", ",", " ", ",", " ", "b", ",", ",", "c">>
CF_OBJECT == <<"{", "\"", "c", "f", "_", "x", "\"", ":", "\"", "y", "\"", "}">>
CF_ARRAY == <<"[", "1", ",", "2", "]">>
CF_BAD == <<"n", "o", "t", " ", "j", "s", "o", "n">>
CF_STRING == <<"\"", "s", "t", "r", "\"">>
\* the keys of custom fields, as JSON.parse and Object.entries give them
CF_X == <<"c", "f", "_", "x">>
CF_Y == <<"c", "f", "_", "y">>
CF_Z == <<"c", "f", "_", "z">>
\* {"cf_x":null,"cf_y":"a\nb", "cf_z":{"n":null,"l":[1,null,true]}}
CF_MIXED ==
  <<"{", "\"">> \o CF_X \o <<"\"", ":", "n", "u", "l", "l", ",", "\"">> \o CF_Y
    \o <<"\"", ":", "\"", "a", "\\", "n", "b", "\"", ",", " ", "\"">> \o CF_Z
    \o <<"\"", ":", "{", "\"", "n", "\"", ":", "n", "u", "l", "l", ",",
         "\"", "l", "\"", ":", "[", "1", ",", "n", "u", "l", "l", ",",
         "t", "r", "u", "e", "]", "}", "}">>
\* a text with a quote and a backslash: say "hi"\
QUOTED == <<"s", "a", "y", " ", "\"", "h", "i", "\"", "\\">>
ALL_EMPTY_LIST == <<" ", ",", " ", ",">>

\* an object from a set of <<key, value>> pairs
Object(pairs) == [k \in {q[1] : q \in pairs} |-> (CHOOSE q \in pairs : q[1] = k)[2]]

\* the contact parameter (a fixedCollection): {} or {contactValues: ...}
ContactValues(pairs) == Obj(Object({<<"contactValues", Obj(Object(pairs))>>}))

ContactInputs ==
  { Obj(EmptyObject),
    ContactValues({<<"email", Str(EMAIL_OK)>>, <<"lastName", Str(DOE)>>}),
    ContactValues({<<"lastName", Str(DOE)>>}),
    ContactValues({<<"firstName", Str(JANE)>>}),
    ContactValues({<<"phone", Str(PHONE)>>}),
    ContactValues({<<"mobile", Str(PHONE)>>}),
    ContactValues({<<"email", Str(EMAIL_OK)>>, <<"lastName", Str(EMPTY)>>}),
    ContactValues({<<"email", Str(EMAIL_BAD)>>, <<"lastName", Str(DOE)>>}),
    ContactValues({<<"email", Str(EMPTY)>>, <<"lastName", Str(BLANK)>>, <<"firstName", Str(EMPTY)>>}),
    ContactValues({<<"email", Str(BLANK \o EMAIL_OK \o BLANK)>>, <<"firstName", Str(JANE \o BLANK)>>}),
    ContactValues({<<"lastName", Num(42)>>, <<"phone", Num(0)>>}),
    ContactValues({<<"lastName", Str(DOE)>>, <<"phone", Obj(EmptyObject)>>}),
    ContactValues({<<"email", Str(EMAIL_AT_LIMIT)>>}),
    ContactValues({<<"email", Str(EMAIL_OVER_LIMIT)>>, <<"lastName", Str(DOE)>>}),
    ContactValues({<<"email", Str(EMAIL_LABEL_64)>>, <<"lastName", Str(DOE)>>}),
    ContactValues({<<"email", Str(EMAIL_NO_DOT)>>}),
    ContactValues({<<"lastName", Str(DOE)>>, <<"mobile", Str(PHONE)>>}),
    ContactValues({<<"lastName", Str(DOE)>>, <<"mobile", Obj(EmptyObject)>>}),
    ContactValues({<<"lastName", Str(DOE)>>, <<"firstName", Arr(<<Str(JANE)>>)>>,
                   <<"phone", Null>>}),
    ContactValues({<<"email", Undefined>>, <<"lastName", Str(BLANK \o DOE)>>,
                   <<"phone", Num(5550100)>>}),
    Obj(Object({<<"contactValues", Arr(<<Str(DOE)>>)>>})) }

DueDateInputs == {EMPTY, BLANK, DUE_LOCAL, DUE_UTC, DUE_BAD}

AdditionalFieldInputs ==
  { EmptyObject,
    Object({<<"tags", Str(TAGS)>>}),
    Object({<<"accountId", Str(VALID_ID)>>, <<"status", Str(OPEN)>>}),
    Object({<<"accountId", Str(NINE_DIGITS)>>}),
    Object({<<"assigneeId", Str(BLANK)>>, <<"productId", Num(7)>>}),
    Object({<<"secondaryContacts", Str(SECONDARY)>>, <<"cf", Str(CF_OBJECT)>>}),
    Object({<<"secondaryContacts", Str(BLANK)>>, <<"cf", Str(CF_ARRAY)>>}),
    Object({<<"cf", Str(CF_BAD)>>}),
    Object({<<"email", Str(EMAIL_OK)>>, <<"phone", Str(EMPTY)>>}),
    Object({<<"email", Str(EMAIL_AT_LIMIT)>>}),
    Object({<<"email", Str(EMAIL_OVER_LIMIT)>>}),
    Object({<<"accountId", Str(MULTILINE_EXPRESSION_ID)>>}),
    Object({<<"accountId", Str(PADDED_ID)>>}) }

UpdateFieldInputs ==
  { EmptyObject,
    Object({<<"dueDate", Str(EMPTY)>>, <<"priority", Str(EMPTY)>>, <<"status", Str(EMPTY)>>}),
    Object({<<"dueDate", Str(DUE_LOCAL)>>, <<"priority", Str(HIGH)>>}),
    Object({<<"dueDate", Str(DUE_BAD)>>}),
    Object({<<"departmentId", Str(VALID_ID)>>, <<"teamId", Str(EXPRESSION_ID)>>}),
    Object({<<"departmentId", Str(WORD_ID)>>}),
    Object({<<"accountId", Str(NINE_DIGITS)>>}),
    Object({<<"contactId", Str(BLANK)>>, <<"subject", Str(HELP)>>}),
    Object({<<"secondaryContacts", Str(SECONDARY)>>, <<"cf", Obj(Object({<<CF_X, Str(TEXT)>>, <<CF_Y, Null>>}))>>}),
    Object({<<"cf", Str(CF_ARRAY)>>, <<"tags", Str(TAGS)>>}),
    Object({<<"email", Str(EMAIL_OK)>>, <<"lastName", Str(DOE)>>, <<"accountName", Str(HELP)>>}),
    Object({<<"email", Str(EMAIL_AT_LIMIT)>>}),
    Object({<<"email", Str(EMAIL_OVER_LIMIT)>>}),
    Object({<<"cf", Str(CF_OBJECT)>>}),
    Object({<<"cf", Str(CF_STRING)>>}),
    Object({<<"cf", Str(CF_MIXED)>>}),
    Object({<<"cf", Obj(Object({<<CF_X, Undefined>>, <<CF_Y, Str(QUOTED)>>,
                                <<CF_Z, Obj(Object({<<<<"n">>, Num(0)>>}))>>}))>>}),
    Object({<<"cf", Obj(Object({<<CF_X, Null>>}))>>}),
    Object({<<"cf", Str(CF_BAD)>>}),
    Object({<<"cf", Str(EMPTY)>>}),
    Object({<<"cf", Arr(<<Num(1), Num(2)>>)>>}),
    Object({<<"cf", Num(7)>>}),
    Object({<<"cf", Null>>}),
    Object({<<"secondaryContacts", Str(ALL_EMPTY_LIST)>>}),
    Object({<<"status", Undefined>>, <<"priority", Str(HIGH)>>}),
    Object({<<"accountId", Str(MULTILINE_EXPRESSION_ID)>>}),
    Object({<<"accountId", Str(PADDED_ID)>>}),
    Object({<<"accountId", Str(MIXED_EXPRESSION_ID)>>, <<"phone", Str(EMPTY)>>}),
    Object({<<"accountId", Str(EMPTY_EXPRESSION_ID)>>}),
    Object({<<"accountId", Str(EMPTY)>>}),
    Object({<<"accountId", Num(7)>>, <<"ticketId", Str(WORD_ID)>>}) }

IdInputs ==
  {VALID_ID, TEN_DIGITS, NINE_DIGITS, PADDED_ID, EXPRESSION_ID, MIXED_EXPRESSION_ID,
   MULTILINE_EXPRESSION_ID, EMPTY_EXPRESSION_ID, WORD_ID, EMPTY}

\* the parameters of ticket create, field by field
TicketCreateParams(departmentId, teamId, contact, dueDate, description, additionalFields) ==
  Object({<<"departmentId", Str(departmentId)>>, <<"teamId", Str(teamId)>>,
          <<"subject", Str(HELP)>>, <<"contact", contact>>, <<"priority", Str(HIGH)>>,
          <<"classification", Str(EMPTY)>>, <<"dueDate", Str(dueDate)>>,
          <<"description", Str(description)>>,
          <<"additionalFields", Obj(additionalFields)>>})

\* the end-to-end example of the specification
EXAMPLE_TICKET ==
  TicketCreateParams(VALID_ID, EMPTY,
    ContactValues({<<"email", Str(EMAIL_OK)>>, <<"lastName", Str(DOE)>>}),
    DUE_LOCAL, EMPTY, Object({<<"tags", Str(TAGS)>>}))

TicketCreateInputs ==
  {TicketCreateParams(VALID_ID, EMPTY, c, d, EMPTY, EmptyObject) :
     c \in ContactInputs, d \in {EMPTY, DUE_BAD}}
  \cup {TicketCreateParams(VALID_ID, EMPTY, Obj(EmptyObject), d, EMPTY, EmptyObject) :
     d \in DueDateInputs}
  \cup {TicketCreateParams(dep, team, Obj(EmptyObject), EMPTY, EMPTY, EmptyObject) :
     dep \in {VALID_ID, WORD_ID, EMPTY}, team \in {EMPTY, BLANK, NINE_DIGITS, VALID_ID}}
  \cup {TicketCreateParams(VALID_ID, EMPTY, Obj(EmptyObject), EMPTY, desc, a) :
     desc \in {EMPTY, TEXT}, a \in AdditionalFieldInputs}
  \cup {EXAMPLE_TICKET}

TicketUpdateInputs ==
  {Object({<<"ticketId", Str(id)>>, <<"description", Str(desc)>>,
           <<"updateFields", Obj(u)>>}) :
     id \in {VALID_ID, PADDED_ID, NINE_DIGITS}, desc \in {EMPTY, TEXT}, u \in UpdateFieldInputs}

FilterInputs ==
  { EmptyObject,
    Object({<<"departmentId", Str(VALID_ID)>>, <<"status", Str(OPEN)>>}),
    Object({<<"departmentId", Str(WORD_ID)>>, <<"assigneeId", Str(NINE_DIGITS)>>}),
    Object({<<"departmentId", Str(EMPTY)>>, <<"assigneeId", Str(EXPRESSION_ID)>>}) }

ListInputs(extra) ==
  {Spread(Object({<<"returnAll", Bool(all)>>, <<"limit", Num(limit)>>}), e) :
     all \in BOOLEAN, limit \in {1, 50}, e \in extra}

Inputs(resource, operation) ==
  CASE resource = "ticket" /\ operation = "create" -> TicketCreateInputs
    [] resource = "ticket" /\ operation = "update" -> TicketUpdateInputs
    [] resource = "ticket" /\ operation = "list" ->
         ListInputs({Object({<<"filters", Obj(f)>>}) : f \in FilterInputs})
    [] resource = "ticket" /\ operation = "listThreads" ->
         ListInputs({Object({<<"ticketId", Str(id)>>}) : id \in {VALID_ID, NINE_DIGITS}})
    [] resource = "ticket" /\ operation = "addComment" ->
         {Object({<<"ticketId", Str(id)>>, <<"content", Str(TEXT)>>, <<"isPublic", Bool(b)>>}) :
            id \in {VALID_ID, EXPRESSION_ID, WORD_ID}, b \in BOOLEAN}
    [] resource = "ticket" -> {Object({<<"ticketId", Str(id)>>}) : id \in IdInputs}
    [] resource = "contact" /\ operation = "create" ->
         {Object({<<"lastName", Str(DOE)>>, <<"email", Str(e)>>,
                  <<"additionalFields", Obj(a)>>}) :
            e \in {EMAIL_OK, EMAIL_BAD, EMPTY}, a \in AdditionalFieldInputs}
         \cup {Object({<<"lastName", Str(DOE)>>, <<"email", Str(e)>>,
                        <<"additionalFields", Obj(EmptyObject)>>}) :
                  e \in EmailInputs}
    [] resource = "account" /\ operation = "create" ->
         {Object({<<"accountName", Str(HELP)>>, <<"additionalFields", Obj(a)>>}) :
            a \in AdditionalFieldInputs}
    [] operation = "list" -> ListInputs({EmptyObject})
    [] operation = "update" ->
         {Object({<<IF resource = "contact" THEN "contactId" ELSE "accountId", Str(id)>>,
                  <<"updateFields", Obj(u)>>}) :
            id \in {VALID_ID, NINE_DIGITS}, u \in UpdateFieldInputs}
    [] OTHER ->
         {Object({<<IF resource = "contact" THEN "contactId" ELSE "accountId", Str(id)>>}) :
            id \in IdInputs}

(***************************************************************************)
(* The environment: credentials, host time zone, the remote collection     *)
(* and the outcomes of a request.                                          *)
(***************************************************************************)
DEFAULT_BASE_URL == "https://desk.zoho.com/api/v1"

\* baseUrl "" stands for a credential without a baseUrl
\* the host: its credentials and the minutes its local time is ahead of UTC
Environments ==
  {[credentials |-> [orgId |-> "org-1", baseUrl |-> ""], timezone |-> 0],
   [credentials |-> [orgId |-> "org-2", baseUrl |-> "https://desk.zoho.eu/api/v1"],
    timezone |-> 0],
   [credentials |-> [orgId |-> "org-2", baseUrl |-> "https://desk.zoho.eu/api/v1"],
    timezone |-> 0 - 300]}

\* the remote collection a list request reads: size items, numbered from 1,
\* returned in the response under key
Sources ==
  {[size |-> k * LIST_PAGE_SIZE + d, key |-> "data"] : k \in 0..MaxFullPages, d \in {0, 1}}
  \cup {[size |-> 1, key |-> "teams"]}

HelperSources ==
  {[size |-> n, key |-> "data"] : n \in 0..MaxSource} \cup {[size |-> 1, key |-> "teams"]}

HttpError(statusCode, code, message) ==
  [kind |-> "RemoteApiError", message |-> message, args |-> <<>>,
   statusCode |-> statusCode, code |-> code]

HttpErrors ==
  {HttpError(HTTP_TOO_MANY_REQUESTS, 0, "Too Many Requests"),
   HttpError(0, HTTP_TOO_MANY_REQUESTS, "Rate limited"),
   HttpError(500, 0, "Internal Server Error")}

RESPONSE == Obj(Object({<<"id", Str(VALID_ID)>>}))

Min(a, b) == IF a < b THEN a ELSE b

\* the page of the collection a query asks for
ServePage(qs, src) ==
  LET first == Get(qs, "from").v
      count == Min(Get(qs, "limit").v, src.size - first + 1)
  IN Obj(Object({<<src.key, Arr([k \in 1..count |-> Num(first + k - 1)])>>}))

\* the response of the remote API to a request
Serve(req, src) ==
  IF "from" \in DOMAIN req.qs THEN ServePage(req.qs, src) ELSE RESPONSE

\* what requestOAuth2 can do with a request: resolve or reject
Outcomes(req, src) ==
  {[err |-> NoError, response |-> Serve(req, src)]}
  \cup {[err |-> e, response |-> Undefined] : e \in HttpErrors}

(***************************************************************************)
(* The state of one run of execute.                                        *)
(***************************************************************************)
VARIABLES
  resource, operation, nItems, continueOnFail, credentials, timezone, source,
  pc, i, orgId, baseUrl, params, plan, returnData, pending, thrown, output,
  hpc, hcall, from, allItems, herr, hlog, hpages,
  sent, failures, gathered, credentialReads

config == <<resource, operation, nItems, continueOnFail, credentials, timezone>>
locals == <<params, plan>>
helper == <<hpc, hcall, from, allItems, herr, hlog, hpages>>
vars == <<config, source, pc, i, orgId, baseUrl, locals, returnData, pending, thrown,
          output, helper, sent, failures, gathered, credentialReads>>

NoParams == EmptyObject
NoPlan == Plan("none", "none", Request("", "", <<>>, EmptyObject, EmptyObject))
NoCall == [baseUrl |-> "", endpoint |-> "", id |-> <<>>, orgId |-> "", limit |-> 0,
           dataKey |-> "", queryParams |-> EmptyObject]
NoOutput == [returned |-> FALSE, data |-> <<>>]

RATE_LIMIT_MESSAGE ==
  "Zoho Desk API rate limit exceeded (10 requests/second per organization). Please wait a moment and try again, or reduce the number of items being processed."

Record(json, item) == [json |-> json, pairedItem |-> item]

ErrorJson(message, args) == [t |-> "error", v |-> [message |-> message, args |-> args]]

\* a variant that looks at error.statusCode alone
IsRateLimitStatusCodeOnly(error) == error.statusCode = HTTP_TOO_MANY_REQUESTS

IsRateLimit(error) ==
  error.statusCode = HTTP_TOO_MANY_REQUESTS \/ error.code = HTTP_TOO_MANY_REQUESTS

\* a request handed to requestOAuth2 and not yet settled
Issued(item, org, url, req) == [item |-> item, orgId |-> org, baseUrl |-> url, req |-> req]

Init ==
  /\ resource \in DOMAIN Operations
  /\ operation \in Operations[resource]
  /\ nItems \in 0..MaxItems
  /\ continueOnFail \in BOOLEAN
  /\ \E env \in Environments : credentials = env.credentials /\ timezone = env.timezone
  /\ source = [size |-> 0, key |-> "data"]
  /\ pc = "start"
  /\ i = 0
  /\ orgId = ""
  /\ baseUrl = ""
  /\ params = NoParams
  /\ plan = NoPlan
  /\ returnData = <<>>
  /\ pending = {}
  /\ thrown = NoError
  /\ output = NoOutput
  /\ hpc = "idle"
  /\ hcall = NoCall
  /\ from = 1
  /\ allItems = <<>>
  /\ herr = NoError
  /\ hlog = <<>>
  /\ hpages = <<>>
  /\ sent = [j \in 0..(nItems - 1) |-> 0]
  /\ failures = [j \in 0..(nItems - 1) |-> NoError]
  /\ gathered = [j \in 0..(nItems - 1) |-> 0]
  /\ credentialReads = 0

\* execute up to the loop: the credentials are read
Start ==
  /\ pc = "start"
  /\ pc' = "loop"
  /\ orgId' = credentials.orgId
  /\ baseUrl' = IF credentials.baseUrl # "" THEN credentials.baseUrl ELSE DEFAULT_BASE_URL
  /\ credentialReads' = credentialReads + 1
  /\ UNCHANGED <<config, source, i, locals, returnData, pending, thrown, output, helper,
                 sent, failures, gathered>>

\* the credential store of the host is edited, once, while execute runs: a
\* later lookup would return the new values
RotateCredentials ==
  /\ pc \in {"loop", "await", "paging"}
  /\ credentials.orgId = orgId
  /\ \E env \in Environments :
       /\ env.credentials # credentials
       /\ credentials' = env.credentials
  /\ UNCHANGED <<resource, operation, nItems, continueOnFail, timezone, source, pc, i,
                 orgId, baseUrl, locals, returnData, pending, thrown, output, helper,
                 sent, failures, gathered, credentialReads>>

\* a variant that never reads continueOnFail
CatchAlwaysContinues(error) ==
  /\ failures' = [failures EXCEPT ![i] = error]
  /\ returnData' = Append(returnData,
       Record(ErrorJson(IF IsRateLimit(error) THEN RATE_LIMIT_MESSAGE ELSE error.message,
                        IF IsRateLimit(error) THEN <<>> ELSE error.args), i))
  /\ i' = i + 1
  /\ pc' = "loop"
  /\ UNCHANGED thrown

\* the catch block of execute, entered with error while item i is processed
Catch(error) ==
  /\ failures' = [failures EXCEPT ![i] = error]
  /\ IF IsRateLimit(error)
     THEN IF continueOnFail
          THEN /\ returnData' = Append(returnData, Record(ErrorJson(RATE_LIMIT_MESSAGE, <<>>), i))
               /\ i' = i + 1
               /\ pc' = "loop"
               /\ UNCHANGED thrown
          ELSE /\ thrown' = ApplicationError("Error", RATE_LIMIT_MESSAGE, <<>>)
               /\ pc' = "raised"
               /\ UNCHANGED <<returnData, i>>
     ELSE IF continueOnFail
          THEN /\ returnData' = Append(returnData, Record(ErrorJson(error.message, error.args), i))
               /\ i' = i + 1
               /\ pc' = "loop"
               /\ UNCHANGED thrown
          ELSE /\ thrown' = error
               /\ pc' = "raised"
               /\ UNCHANGED <<returnData, i>>

\* a variant that pushes no record after a moveToTrash request
SuccessRecordsNoneOnDelete(p, response, item) ==
  LET data == Get(response.v, "data")
  IN CASE p.onSuccess = "response" -> <<Record(response, item)>>
       [] p.onSuccess = "success" -> <<>>
       [] OTHER ->
            IF Truthy(data) THEN [k \in 1..Len(data.v) |-> Record(data.v[k], item)] ELSE <<>>

\* the records execute pushes for item when its request resolved with response
SuccessRecords(p, response, item) ==
  LET data == Get(response.v, "data")
      idsKey == CHOOSE k \in DOMAIN p.req.body : TRUE
      idKey == CASE idsKey = "ticketIds" -> "ticketId"
                 [] idsKey = "contactIds" -> "contactId"
                 [] OTHER -> "accountId"
  IN CASE p.onSuccess = "response" -> <<Record(response, item)>>
       [] p.onSuccess = "success" ->
            <<Record(Obj(Object({<<"success", Bool(TRUE)>>,
                                 <<idKey, p.req.body[idsKey].v[1]>>})), item)>>
       [] OTHER ->
            IF Truthy(data) THEN [k \in 1..Len(data.v) |-> Record(data.v[k], item)] ELSE <<>>

\* a variant that validates after the request went out
RejectAfterRequest(p, error) ==
  /\ Catch(error)
  /\ params' = p
  /\ sent' = [sent EXCEPT ![i] = @ + 1]
  /\ UNCHANGED <<source, plan, pending, helper>>

\* an iteration whose inputs fail validation: the throw lands in the catch block
Reject(p, error) ==
  /\ Catch(error)
  /\ params' = p
  /\ UNCHANGED <<source, plan, pending, sent, helper>>

\* a variant that does not await the request
CallWithoutAwait(p, call) ==
  /\ params' = p
  /\ plan' = call
  /\ source' \in IF call.mode = "single" THEN {source} ELSE Sources
  /\ pending' = pending \cup {Issued(i, orgId, baseUrl, call.req)}
  /\ sent' = [sent EXCEPT ![i] = @ + 1]
  /\ i' = i + 1
  /\ pc' = "loop"
  /\ UNCHANGED <<returnData, thrown, failures, helper>>

\* a variant that takes the organization and the base URL from the
\* credential store at every item
CallRereadsCredentials(p, call) ==
  /\ params' = p
  /\ plan' = call
  /\ UNCHANGED <<returnData, i, thrown, failures, herr>>
  /\ LET org == credentials.orgId
         url == IF credentials.baseUrl # "" THEN credentials.baseUrl ELSE DEFAULT_BASE_URL
     IN IF call.mode = "all"
        THEN /\ source' \in Sources
             /\ pc' = "paging"
             /\ hpc' = "loop"
             /\ hcall' = [baseUrl |-> url, endpoint |-> call.req.endpoint,
                          id |-> call.req.id, orgId |-> org,
                          limit |-> LIST_PAGE_SIZE, dataKey |-> "data",
                          queryParams |-> call.req.qs]
             /\ from' = 1
             /\ allItems' = <<>>
             /\ hlog' = <<>>
             /\ hpages' = <<>>
             /\ UNCHANGED <<pending, sent>>
        ELSE /\ source' \in IF call.mode = "list" THEN Sources ELSE {source}
             /\ pc' = "await"
             /\ pending' = pending \cup {Issued(i, org, url, call.req)}
             /\ sent' = [sent EXCEPT ![i] = @ + 1]
             /\ UNCHANGED <<hpc, hcall, from, allItems, hlog, hpages>>

\* a variant whose requests carry no body once an item of the batch failed
CallBareAfterFailure(p, call) ==
  /\ params' = p
  /\ plan' = call
  /\ UNCHANGED <<returnData, i, thrown, failures, herr>>
  /\ IF call.mode = "all"
     THEN /\ source' \in Sources
          /\ pc' = "paging"
          /\ hpc' = "loop"
          /\ hcall' = [baseUrl |-> baseUrl, endpoint |-> call.req.endpoint,
                       id |-> call.req.id, orgId |-> orgId,
                       limit |-> LIST_PAGE_SIZE, dataKey |-> "data",
                       queryParams |-> call.req.qs]
          /\ from' = 1
          /\ allItems' = <<>>
          /\ hlog' = <<>>
          /\ hpages' = <<>>
          /\ UNCHANGED <<pending, sent>>
     ELSE /\ source' \in IF call.mode = "list" THEN Sources ELSE {source}
          /\ pc' = "await"
          /\ pending' = pending \cup
               {Issued(i, orgId, baseUrl,
                       IF \E j \in DOMAIN failures : IsError(failures[j])
                       THEN [call.req EXCEPT !.body = EmptyObject]
                       ELSE call.req)}
          /\ sent' = [sent EXCEPT ![i] = @ + 1]
          /\ UNCHANGED <<hpc, hcall, from, allItems, hlog, hpages>>

\* an iteration whose inputs are valid, up to its first await: the request
\* is handed to the transport, or getAllPaginatedItems is entered
Call(p, call) ==
  /\ params' = p
  /\ plan' = call
  /\ UNCHANGED <<returnData, i, thrown, failures, herr>>
  /\ IF call.mode = "all"
     THEN /\ source' \in Sources
          /\ pc' = "paging"
          /\ hpc' = "loop"
          /\ hcall' = [baseUrl |-> baseUrl, endpoint |-> call.req.endpoint,
                       id |-> call.req.id, orgId |-> orgId,
                       limit |-> LIST_PAGE_SIZE, dataKey |-> "data",
                       queryParams |-> call.req.qs]
          /\ from' = 1
          /\ allItems' = <<>>
          /\ hlog' = <<>>
          /\ hpages' = <<>>
          /\ UNCHANGED <<pending, sent>>
     ELSE /\ source' \in IF call.mode = "list" THEN Sources ELSE {source}
          /\ pc' = "await"
          /\ pending' = pending \cup {Issued(i, orgId, baseUrl, call.req)}
          /\ sent' = [sent EXCEPT ![i] = @ + 1]
          /\ UNCHANGED <<hpc, hcall, from, allItems, hlog, hpages>>

\* one iteration of the loop of execute, up to its first await or its throw
ProcessItem ==
  /\ pc = "loop"
  /\ i < nItems
  /\ \E p \in Inputs(resource, operation) :
     \E r \in {ItemPlan(resource, operation, p, timezone)} :
       IF IsError(r.err) THEN Reject(p, r.err) ELSE Call(p, r.body)
  /\ UNCHANGED <<config, orgId, baseUrl, output, gathered, credentialReads>>

\* the request of the current item settles: its records are pushed, or the
\* catch block runs
Respond ==
  /\ pc = "await"
  /\ \E r \in pending : \E out \in Outcomes(r.req, source) :
       /\ pending' = pending \ {r}
       /\ IF IsError(out.err)
          THEN /\ Catch(out.err)
               /\ params' = params
          ELSE /\ returnData' = returnData \o SuccessRecords(plan, out.response, i)
               /\ i' = i + 1
               /\ pc' = "loop"
               /\ params' = NoParams
               /\ UNCHANGED <<thrown, failures>>
  /\ plan' = NoPlan
  /\ UNCHANGED <<config, source, orgId, baseUrl, output, helper, sent, gathered,
                 credentialReads>>

\* a variant that sends the filters with the first page only
HelperRequestFiltersFirstPageOnly ==
  /\ hpc = "loop"
  /\ LET qs == Spread(Object({<<"from", Num(from)>>, <<"limit", Num(hcall.limit)>>}),
                      IF from = 1 THEN hcall.queryParams ELSE EmptyObject)
     IN /\ pending' = pending \cup
             {Issued(i, hcall.orgId, hcall.baseUrl,
                     Request("GET", hcall.endpoint, hcall.id, EmptyObject, qs))}
        /\ hlog' = Append(hlog, qs)
  /\ sent' = [sent EXCEPT ![i] = @ + 1]
  /\ hpc' = "await"
  /\ UNCHANGED <<config, source, pc, i, orgId, baseUrl, locals, returnData, thrown, output,
                 hcall, from, allItems, herr, hpages, failures, gathered, credentialReads>>

\* getAllPaginatedItems, top of the while loop: the request of the next page
HelperRequest ==
  /\ hpc = "loop"
  /\ LET qs == Spread(Object({<<"from", Num(from)>>, <<"limit", Num(hcall.limit)>>}),
                      hcall.queryParams)
     IN /\ pending' = pending \cup
             {Issued(i, hcall.orgId, hcall.baseUrl,
                     Request("GET", hcall.endpoint, hcall.id, EmptyObject, qs))}
        /\ hlog' = Append(hlog, qs)
  /\ sent' = [sent EXCEPT ![i] = @ + 1]
  /\ hpc' = "await"
  /\ UNCHANGED <<config, source, pc, i, orgId, baseUrl, locals, returnData, thrown, output,
                 hcall, from, allItems, herr, hpages, failures, gathered, credentialReads>>

\* a variant that stops on a page of exactly limit items
HelperRespondStopsOnFullPage ==
  /\ hpc = "await"
  /\ \E r \in pending : \E out \in Outcomes(r.req, source) :
       /\ pending' = pending \ {r}
       /\ IF IsError(out.err)
          THEN /\ hpc' = "threw"
               /\ herr' = out.err
               /\ UNCHANGED <<from, allItems, hpages>>
          ELSE LET page == Get(out.response.v, hcall.dataKey)
                   items == IF Truthy(page) THEN page.v ELSE <<>>
               IN /\ allItems' = allItems \o items
                  /\ hpages' = Append(hpages, Len(items))
                  /\ herr' = herr
                  /\ IF Len(items) <= hcall.limit
                     THEN hpc' = "returned" /\ from' = from
                     ELSE hpc' = "loop" /\ from' = from + hcall.limit
  /\ UNCHANGED <<config, source, pc, i, orgId, baseUrl, locals, returnData, thrown, output,
                 hcall, hlog, sent, failures, gathered, credentialReads>>

\* a variant with a cap of its own: it returns after the second page at the latest
HelperRespondPageCap ==
  /\ hpc = "await"
  /\ \E r \in pending : \E out \in Outcomes(r.req, source) :
       /\ pending' = pending \ {r}
       /\ IF IsError(out.err)
          THEN /\ hpc' = "threw"
               /\ herr' = out.err
               /\ UNCHANGED <<from, allItems, hpages>>
          ELSE LET page == Get(out.response.v, hcall.dataKey)
                   items == IF Truthy(page) THEN page.v ELSE <<>>
               IN /\ allItems' = allItems \o items
                  /\ hpages' = Append(hpages, Len(items))
                  /\ herr' = herr
                  /\ IF Len(items) < hcall.limit \/ Len(hpages) + 1 >= 2
                     THEN hpc' = "returned" /\ from' = from
                     ELSE hpc' = "loop" /\ from' = from + hcall.limit
  /\ UNCHANGED <<config, source, pc, i, orgId, baseUrl, locals, returnData, thrown, output,
                 hcall, hlog, sent, failures, gathered, credentialReads>>

\* getAllPaginatedItems, after the await: the page is accumulated and the
\* loop goes on or ends, or the rejection leaves the helper
HelperRespond ==
  /\ hpc = "await"
  /\ \E r \in pending : \E out \in Outcomes(r.req, source) :
       /\ pending' = pending \ {r}
       /\ IF IsError(out.err)
          THEN /\ hpc' = "threw"
               /\ herr' = out.err
               /\ UNCHANGED <<from, allItems, hpages>>
          ELSE LET page == Get(out.response.v, hcall.dataKey)
                   items == IF Truthy(page) THEN page.v ELSE <<>>
               IN /\ allItems' = allItems \o items
                  /\ hpages' = Append(hpages, Len(items))
                  /\ herr' = herr
                  /\ IF Len(items) < hcall.limit
                     THEN hpc' = "returned" /\ from' = from
                     ELSE hpc' = "loop" /\ from' = from + hcall.limit
  /\ UNCHANGED <<config, source, pc, i, orgId, baseUrl, locals, returnData, thrown, output,
                 hcall, hlog, sent, failures, gathered, credentialReads>>

\* execute after getAllPaginatedItems returned: one record per item
HelperReturn ==
  /\ pc = "paging"
  /\ hpc = "returned"
  /\ returnData' = returnData \o [k \in 1..Len(allItems) |-> Record(allItems[k], i)]
  /\ gathered' = [gathered EXCEPT ![i] = Len(allItems)]
  /\ i' = i + 1
  /\ pc' = "loop"
  /\ hpc' = "idle"
  /\ hcall' = NoCall
  /\ from' = 1
  /\ allItems' = <<>>
  /\ hlog' = <<>>
  /\ hpages' = <<>>
  /\ params' = NoParams
  /\ plan' = NoPlan
  /\ UNCHANGED <<config, source, orgId, baseUrl, pending, thrown, output, herr, sent,
                 failures, credentialReads>>

\* a variant that pushes the items gathered before the failure
HelperThrowKeepsPartial ==
  /\ pc = "paging"
  /\ hpc = "threw"
  /\ failures' = [failures EXCEPT ![i] = herr]
  /\ returnData' = (returnData \o [k \in 1..Len(allItems) |-> Record(allItems[k], i)])
                    \o <<Record(ErrorJson(herr.message, herr.args), i)>>
  /\ i' = i + 1
  /\ pc' = "loop"
  /\ gathered' = [gathered EXCEPT ![i] = Len(allItems)]
  /\ hpc' = "idle"
  /\ hcall' = NoCall
  /\ from' = 1
  /\ allItems' = <<>>
  /\ hlog' = <<>>
  /\ hpages' = <<>>
  /\ herr' = NoError
  /\ params' = params
  /\ plan' = NoPlan
  /\ UNCHANGED <<config, source, orgId, baseUrl, pending, thrown, output, sent,
                 credentialReads>>

\* execute after getAllPaginatedItems threw: the catch block runs
HelperThrow ==
  /\ pc = "paging"
  /\ hpc = "threw"
  /\ Catch(herr)
  /\ gathered' = [gathered EXCEPT ![i] = Len(allItems)]
  /\ hpc' = "idle"
  /\ hcall' = NoCall
  /\ from' = 1
  /\ allItems' = <<>>
  /\ hlog' = <<>>
  /\ hpages' = <<>>
  /\ herr' = NoError
  /\ params' = params
  /\ plan' = NoPlan
  /\ UNCHANGED <<config, source, orgId, baseUrl, pending, output, sent, credentialReads>>

\* the loop is over: execute returns [returnData]
Finish ==
  /\ pc = "loop"
  /\ i = nItems
  /\ pc' = "done"
  /\ output' = [returned |-> TRUE, data |-> returnData]
  /\ UNCHANGED <<config, source, i, orgId, baseUrl, locals, returnData, pending, thrown,
                 helper, sent, failures, gathered, credentialReads>>

Next ==
  \/ Start
  \/ RotateCredentials
  \/ ProcessItem
  \/ Respond
  \/ HelperRequest
  \/ HelperRespond
  \/ HelperReturn
  \/ HelperThrow
  \/ Finish

Spec == Init /\ [][Next]_vars

(***************************************************************************)
(* getAllPaginatedItems on its own: a call with any page size, data key    *)
(* and filters, against any collection.                                    *)
(***************************************************************************)
HelperQueryParams ==
  { EmptyObject,
    Object({<<"departmentId", Str(VALID_ID)>>}),
    Object({<<"assigneeId", Str(NINE_DIGITS)>>, <<"status", Str(OPEN)>>}) }

InitHelper ==
  /\ resource = "ticket"
  /\ operation = "list"
  /\ nItems = 1
  /\ continueOnFail = FALSE
  /\ \E env \in Environments : credentials = env.credentials /\ timezone = env.timezone
  /\ source \in HelperSources
  /\ pc = "direct"
  /\ i = 0
  /\ orgId = credentials.orgId
  /\ baseUrl = DEFAULT_BASE_URL
  /\ params = NoParams
  /\ plan = NoPlan
  /\ returnData = <<>>
  /\ pending = {}
  /\ thrown = NoError
  /\ output = NoOutput
  /\ hpc = "loop"
  /\ \E limit \in 1..MaxLimit : \E dataKey \in {"data", "teams"} :
     \E queryParams \in HelperQueryParams :
       hcall = [baseUrl |-> DEFAULT_BASE_URL, endpoint |-> "/tickets", id |-> <<>>,
                orgId |-> credentials.orgId, limit |-> limit, dataKey |-> dataKey,
                queryParams |-> queryParams]
  /\ from = 1
  /\ allItems = <<>>
  /\ herr = NoError
  /\ hlog = <<>>
  /\ hpages = <<>>
  /\ sent = [j \in {0} |-> 0]
  /\ failures = [j \in {0} |-> NoError]
  /\ gathered = [j \in {0} |-> 0]
  /\ credentialReads = 0

NextHelper ==
  \/ HelperRequest
  \/ HelperRespond

SpecHelper == InitHelper /\ [][NextHelper]_vars

\* the helper under the scheduling of the host: the loop body is straight-line
\* code of one async function, so the next request is issued once the loop is
\* entered, and the awaited request settles (resolves or rejects)
SpecHelperLive ==
  InitHelper /\ [][NextHelper]_vars /\ WF_vars(HelperRequest) /\ WF_vars(HelperRespond)

(***************************************************************************)
(* The dropdown loaders getDepartments and getTeams: one call each,        *)
(* against a host whose credentials lookup may fail and a remote side that *)
(* may reject the request or answer with any response.  Here source is     *)
(* what the host and the remote side will do, and failures[0] the error    *)
(* the catch block caught.                                                 *)
(***************************************************************************)
\* an entry of a dropdown
Option(name, value) == [name |-> name, value |-> value]

\* the one entry the catch block returns: its name holds the error message
ErrorOption(what, error) ==
  Option([t |-> "error label",
          v |-> [what |-> what, message |-> error.message, args |-> error.args]],
         Str(EMPTY))

\* typeof x
TypeOf(x) ==
  CASE x.t \in {"string", "number", "boolean", "undefined"} -> x.t
    [] OTHER -> "object"

\* key in response, for a response that is an object or an array
HasKey(response, key) == response.t = "object" /\ key \in DOMAIN response.v

\* what getCredentials throws when the lookup fails
CREDENTIALS_ERROR == ApplicationError("Error", "Credentials not found", <<>>)

\* what reading a property of null or undefined throws
TYPE_ERROR ==
  ApplicationError("TypeError", "Cannot read properties of null (reading 'name')", <<>>)

\* the department the node holds when getTeams is called
DepartmentInputs ==
  {EmptyObject}
  \cup {Object({<<"departmentId", v>>}) : v \in {Str(EMPTY), Str(VALID_ID), Str(WORD_ID), Num(7)}}

LOADED_ITEM == Obj(Object({<<"id", Str(VALID_ID)>>, <<"name", Str(HELP)>>}))

\* the responses of the remote side: no object, an object without the key,
\* the key with something that is no array, and lists
LoadResponses ==
  {Undefined, Null, Str(HELP), Arr(<<LOADED_ITEM>>), Obj(EmptyObject)}
  \cup {Obj(Object({<<key, v>>})) :
          key \in {"data", "teams"},
          v \in {Null, Str(HELP), Obj(EmptyObject), Arr(<<>>), Arr(<<LOADED_ITEM>>),
                 Arr(<<LOADED_ITEM, Obj(Object({<<"id", Str(TEN_DIGITS)>>}))>>),
                 Arr(<<Null>>)}}

\* credentials: the lookup succeeds; outcome: what requestOAuth2 will do
LoadSources ==
  {[credentials |-> c, outcome |-> o] :
     c \in BOOLEAN,
     o \in {[err |-> NoError, response |-> r] : r \in LoadResponses}
            \cup {[err |-> e, response |-> Undefined] : e \in HttpErrors}}

\* the runtime validation of the response of getDepartments: the error
\* thrown, or NoError
DepartmentsResponseError(response) ==
  IF \/ ~Truthy(response)
     \/ TypeOf(response) # "object"
     \/ ~HasKey(response, "data")
     \/ response.v["data"].t # "array"
  THEN ApplicationError("Error", "Invalid API response structure from Zoho Desk", <<>>)
  ELSE NoError

\* the runtime validation of the response of getTeams
TeamsResponseError(response) ==
  IF ~Truthy(response) \/ TypeOf(response) # "object"
  THEN ApplicationError("Error",
         "Invalid API response structure from Zoho Desk. Expected an object, received: {0}. Response: {1}",
         <<Name(TypeOf(response)), response>>)
  ELSE IF ~HasKey(response, "teams")
  THEN ApplicationError("Error",
         "Invalid API response structure from Zoho Desk. Missing 'teams' property. Response keys: {0}. Response: {1}",
         <<DOMAIN response.v, response>>)
  ELSE IF response.v["teams"].t # "array"
  THEN ApplicationError("Error",
         "Invalid API response structure from Zoho Desk. Expected 'teams' to be an array, received: {0}. Response: {1}",
         <<Name(TypeOf(response.v["teams"])), response>>)
  ELSE NoError

\* items.map(item => ({name: item.name, value: item.id}))
MapOptions(items) ==
  IF \E k \in 1..Len(items) : items[k].t \in {"null", "undefined"}
  THEN [err |-> TYPE_ERROR, value |-> <<>>]
  ELSE [err |-> NoError,
        value |-> [k \in 1..Len(items) |->
                     Option(Get(items[k].v, "name"), Get(items[k].v, "id"))]]

\* the try block of a loader from the settling of its request on: the error
\* thrown, or the options returned
LoadResult(loader, outcome) ==
  LET key == IF loader = "getDepartments" THEN "data" ELSE "teams"
      invalid == IF loader = "getDepartments"
                 THEN DepartmentsResponseError(outcome.response)
                 ELSE TeamsResponseError(outcome.response)
  IN IF IsError(outcome.err) THEN [err |-> outcome.err, value |-> <<>>]
     ELSE IF IsError(invalid) THEN [err |-> invalid, value |-> <<>>]
     ELSE MapOptions(outcome.response.v[key].v)

\* "departments" or "teams", as the catch block of the loader names it
Loaded == IF operation = "getDepartments" THEN "departments" ELSE "teams"

InitLoad ==
  /\ resource = "loadOptions"
  /\ operation \in {"getDepartments", "getTeams"}
  /\ nItems = 0
  /\ continueOnFail = FALSE
  /\ \E env \in Environments : credentials = env.credentials /\ timezone = env.timezone
  /\ source \in LoadSources
  /\ pc = "load"
  /\ i = 0
  /\ orgId = ""
  /\ baseUrl = ""
  /\ params \in IF operation = "getTeams" THEN DepartmentInputs ELSE {NoParams}
  /\ plan = NoPlan
  /\ returnData = <<>>
  /\ pending = {}
  /\ thrown = NoError
  /\ output = NoOutput
  /\ hpc = "idle"
  /\ hcall = NoCall
  /\ from = 1
  /\ allItems = <<>>
  /\ herr = NoError
  /\ hlog = <<>>
  /\ hpages = <<>>
  /\ sent = [j \in {0} |-> 0]
  /\ failures = [j \in {0} |-> NoError]
  /\ gathered = [j \in {0} |-> 0]
  /\ credentialReads = 0

\* a variant whose catch block throws the error again
LoadCatchRethrows(what, error) ==
  /\ failures' = [failures EXCEPT ![0] = error]
  /\ thrown' = error
  /\ pc' = "raised"
  /\ UNCHANGED output

\* the catch block of a loader: one error-labelled option is returned
LoadCatch(what, error) ==
  /\ failures' = [failures EXCEPT ![0] = error]
  /\ output' = [returned |-> TRUE, data |-> <<ErrorOption(what, error)>>]
  /\ pc' = "loaded"
  /\ UNCHANGED thrown

\* a loader returns options
LoadReturn(options) ==
  /\ output' = [returned |-> TRUE, data |-> options]
  /\ pc' = "loaded"
  /\ UNCHANGED <<thrown, failures>>

\* getCredentials settles: the loader goes on to its request, or (getTeams
\* without a department) returns no option, or lands in its catch block
LoadCredentials ==
  /\ pc = "load"
  /\ credentialReads' = credentialReads + 1
  /\ IF ~source.credentials
     THEN /\ LoadCatch(Loaded, CREDENTIALS_ERROR)
          /\ UNCHANGED <<orgId, baseUrl, pending, sent>>
     ELSE /\ orgId' = credentials.orgId
          /\ baseUrl' = IF credentials.baseUrl # "" THEN credentials.baseUrl
                        ELSE DEFAULT_BASE_URL
          /\ IF operation = "getTeams"
                /\ (~Truthy(Param(params, "departmentId"))
                      \/ Param(params, "departmentId").t # "string")
             THEN /\ LoadReturn(<<>>)
                  /\ UNCHANGED <<pending, sent>>
             ELSE /\ pending' =
                       {Issued(0, orgId', baseUrl',
                               IF operation = "getDepartments"
                               THEN Request("GET", "/departments", <<>>, EmptyObject, EmptyObject)
                               ELSE Request("GET", "/departments/{id}/teams",
                                            encodeURIComponent(Param(params, "departmentId").v),
                                            EmptyObject, EmptyObject))}
                  /\ sent' = [sent EXCEPT ![0] = @ + 1]
                  /\ pc' = "loading"
                  /\ UNCHANGED <<thrown, failures, output>>
  /\ UNCHANGED <<config, source, i, locals, returnData, helper, gathered>>

\* the request of a loader settles: its options are returned, or the catch
\* block runs
LoadRespond ==
  /\ pc = "loading"
  /\ \E r \in pending : \E result \in {LoadResult(operation, source.outcome)} :
       /\ pending' = pending \ {r}
       /\ IF IsError(result.err) THEN LoadCatch(Loaded, result.err)
          ELSE LoadReturn(result.value)
  /\ UNCHANGED <<config, source, i, orgId, baseUrl, locals, returnData, helper, sent,
                 gathered, credentialReads>>

NextLoad ==
  \/ LoadCredentials
  \/ LoadRespond

SpecLoad == InitLoad /\ [][NextLoad]_vars

(***************************************************************************)
(* addOptionalFields on its own: a call with any body, any source object   *)
(* and any of the field lists of the node.  Here params holds the three    *)
(* arguments of the call and plan what the call leaves: the body as it is  *)
(* when the call returns or throws, and the error thrown.                  *)
(***************************************************************************)
\* bodies a caller has built before the call
FieldBodies ==
  { EmptyObject,
    Object({<<"description", Str(TEXT)>>}),
    Object({<<"accountId", Str(VALID_ID)>>, <<"status", Str(OPEN)>>,
            <<"description", Str(TEXT)>>}),
    Object({<<"lastName", Str(DOE)>>, <<"email", Str(EMAIL_OK)>>, <<"phone", Null>>}),
    Object({<<"accountName", Str(HELP)>>, <<"subject", Str(HELP)>>, <<"cf", Obj(EmptyObject)>>}) }

\* source objects: the collections of the node, and some that hold null, an
\* empty string, or a rejected value after an accepted one
FieldSources ==
  AdditionalFieldInputs \cup UpdateFieldInputs
  \cup { Object({<<"status", Null>>, <<"subject", Str(EMPTY)>>, <<"lastName", Str(EMPTY)>>}),
         Object({<<"accountId", Str(TEN_DIGITS)>>, <<"departmentId", Str(WORD_ID)>>,
                 <<"subject", Str(TEXT)>>}),
         Object({<<"accountId", Str(VALID_ID)>>, <<"email", Str(EMAIL_OVER_LIMIT)>>,
                 <<"phone", Str(PHONE)>>, <<"description", Undefined>>}),
         Object({<<"accountId", Str(WORD_ID)>>}),
         Object({<<"phone", Num(7)>>, <<"description", Arr(<<>>)>>,
                 <<"accountName", Obj(EmptyObject)>>, <<"email", Undefined>>}) }

FieldLists ==
  {TICKET_CREATE_OPTIONAL_FIELDS, TICKET_UPDATE_OPTIONAL_FIELDS,
   CONTACT_CREATE_OPTIONAL_FIELDS, CONTACT_UPDATE_OPTIONAL_FIELDS,
   ACCOUNT_CREATE_OPTIONAL_FIELDS, ACCOUNT_UPDATE_OPTIONAL_FIELDS}

InitFields ==
  /\ resource = "function"
  /\ operation = "addOptionalFields"
  /\ nItems = 0
  /\ continueOnFail = FALSE
  /\ \E env \in Environments : credentials = env.credentials /\ timezone = env.timezone
  /\ source = [size |-> 0, key |-> "data"]
  /\ pc = "call"
  /\ i = 0
  /\ orgId = ""
  /\ baseUrl = ""
  /\ \E body \in FieldBodies : \E src \in FieldSources : \E fields \in FieldLists :
       params = [body |-> body, source |-> src, fields |-> fields]
  /\ plan = Built(params.body)
  /\ returnData = <<>>
  /\ pending = {}
  /\ thrown = NoError
  /\ output = NoOutput
  /\ hpc = "idle"
  /\ hcall = NoCall
  /\ from = 1
  /\ allItems = <<>>
  /\ herr = NoError
  /\ hlog = <<>>
  /\ hpages = <<>>
  /\ sent = [j \in {0} |-> 0]
  /\ failures = [j \in {0} |-> NoError]
  /\ gathered = [j \in {0} |-> 0]
  /\ credentialReads = 0

\* the call of addOptionalFields: it returns, or throws with the body as
\* far as it was written
CallAddOptionalFields ==
  /\ pc = "call"
  /\ \E r \in {addOptionalFields(params.body, params.source, params.fields)} :
       /\ plan' = r
       /\ thrown' = r.err
       /\ pc' = IF IsError(r.err) THEN "threw" ELSE "returned"
  /\ UNCHANGED <<config, source, i, orgId, baseUrl, params, returnData, pending, output,
                 helper, sent, failures, gathered, credentialReads>>

NextFields == CallAddOptionalFields

SpecFields == InitFields /\ [][NextFields]_vars

(***************************************************************************)
(* The claims.                                                             *)
(***************************************************************************)

\* C1: getAllPaginatedItems with page size L >= 1, against a collection of N
\* items served in order under the data key, returns exactly those N items in
\* source order after exactly N div L + 1 requests, without an error; when L
\* divides N (N = 0 included) the last page is empty.
C1_PaginationReturnsAllItems ==
  (hpc = "returned" /\ source.key = hcall.dataKey) =>
    /\ allItems = [k \in 1..source.size |-> Num(k)]
    /\ Len(hlog) = source.size \div hcall.limit + 1
    /\ sent[i] = Len(hlog)
    /\ herr = NoError
    /\ (source.size % hcall.limit = 0 => hpages[Len(hpages)] = 0)

\* L = 2 and pages [1,2], [3,4], [] give [1,2,3,4] after 3 requests
C1_Witness ==
  /\ hpc = "returned"
  /\ hcall.limit = 2
  /\ hpages = <<2, 2, 0>>
  /\ allItems = <<Num(1), Num(2), Num(3), Num(4)>>
  /\ Len(hlog) = 3

\* C2: with continueOnFail on, an error on item j (validation or remote)
\* leaves exactly one record {error: message} paired to j and the loop goes
\* on past j; with it off, the first error is thrown out of execute, no
\* request is issued for a later item and nothing is returned.
C2_FaultTolerance ==
  \A j \in DOMAIN failures :
    IsError(failures[j]) =>
      LET records == SelectSeq(returnData, LAMBDA r : r.pairedItem = j)
      IN IF continueOnFail
         THEN /\ Len(records) = 1
              /\ records[1].json.t = "error"
              /\ i > j
              /\ pc \in {"loop", "await", "paging", "done"}
         ELSE /\ pc = "raised"
              /\ i = j
              /\ IsError(thrown)
              /\ records = <<>>
              /\ \A m \in DOMAIN sent : m > j => sent[m] = 0
              /\ pending = {}
              /\ ~output.returned

\* item 0 failed, its error record is out, and the request of item 1 is issued
C2_Witness ==
  /\ continueOnFail
  /\ nItems = 2
  /\ IsError(failures[0])
  /\ Len(returnData) = 1
  /\ returnData[1].json.t = "error"
  /\ sent[1] = 1

\* C3: an item whose inputs fail validation (identifier format, field length,
\* email format, custom fields, contact fragment, due date) has had no
\* request issued; a request in flight belongs to an item whose inputs pass
\* every validation of its operation.
C3_ValidationBeforeRequest ==
  /\ \A j \in DOMAIN failures :
       failures[j].kind \in {"InvalidIdentifierFormat", "FieldTooLong", "InvalidEmailFormat",
                             "CustomFieldsInvalid", "ContactValidationFailed",
                             "ContactFieldInvalid", "InvalidDueDate"}
         => sent[j] = 0
  /\ \A r \in pending : ~IsError(ItemPlan(resource, operation, params, timezone).err)

\* item 0 was requested, item 1 failed validation without a request
C3_Witness ==
  /\ nItems = 2
  /\ sent[0] = 1
  /\ failures[1].kind \in {"InvalidIdentifierFormat", "InvalidEmailFormat",
                           "CustomFieldsInvalid", "ContactValidationFailed", "InvalidDueDate"}
  /\ sent[1] = 0

\* C4: an error with statusCode 429 or code 429 surfaces with the fixed
\* rate-limit message (RATE_LIMIT_MESSAGE, the text of the code, which names
\* 10 requests/second) in place of the remote message, as the error record
\* when continueOnFail is on (and the loop goes on) and as the error thrown
\* when it is off; the failed request is the last one of its item.  Any other
\* error surfaces with its own message.
C4_RateLimit ==
  \A j \in DOMAIN failures :
    LET e == failures[j]
        records == SelectSeq(returnData, LAMBDA r : r.pairedItem = j)
        limited == e.statusCode = HTTP_TOO_MANY_REQUESTS \/ e.code = HTTP_TOO_MANY_REQUESTS
        message == IF limited THEN RATE_LIMIT_MESSAGE ELSE e.message
        args == IF limited THEN <<>> ELSE e.args
    IN IsError(e) =>
         /\ continueOnFail => (records = <<Record(ErrorJson(message, args), j)>> /\ i > j)
         /\ ~continueOnFail =>
              (pc = "raised" /\ thrown.message = message /\ thrown.args = args)
         /\ limited => (message # e.message /\ sent[j] = gathered[j] \div LIST_PAGE_SIZE + 1)

\* item 0 was rate limited (code 429), its record holds the fixed message,
\* and item 1 is under way
C4_Witness ==
  /\ continueOnFail
  /\ nItems = 2
  /\ failures[0].code = HTTP_TOO_MANY_REQUESTS
  /\ returnData = <<Record(ErrorJson(RATE_LIMIT_MESSAGE, <<>>), 0)>>
  /\ sent[0] = 1
  /\ sent[1] = 1

\* C5: when a page request of getAllPaginatedItems fails, the helper throws
\* with no request in flight and none issued after it, and the items of the
\* earlier pages never reach the output: with continueOnFail on the item's
\* only record is one error record, with it off execute throws.
C5_PageFailureDiscardsPartial ==
  /\ hpc = "threw" => (pending = {} /\ sent[i] = Len(hlog) /\ Len(hpages) = Len(hlog) - 1)
  /\ \A j \in DOMAIN failures :
       (IsError(failures[j]) /\ gathered[j] > 0) =>
         LET records == SelectSeq(returnData, LAMBDA r : r.pairedItem = j)
         IN /\ \A k \in 1..Len(records) : records[k].json.t = "error"
            /\ continueOnFail => Len(records) = 1
            /\ ~continueOnFail => (pc = "raised" /\ records = <<>> /\ ~output.returned)
            /\ sent[j] = gathered[j] \div LIST_PAGE_SIZE + 1

\* a page after the first failed: the items gathered are gone, one error
\* record is returned
C5_Witness ==
  /\ continueOnFail
  /\ nItems = 1
  /\ pc = "done"
  /\ IsError(failures[0])
  /\ gathered[0] = LIST_PAGE_SIZE
  /\ Len(output.data) = 1

\* C6: the k-th request of getAllPaginatedItems (k = 0, 1, ...) carries
\* from = 1 + k*L, limit = L and the caller's query parameters, nothing else;
\* a page followed by another request was full, and the helper returns at the
\* first page shorter than L with no request in flight.
C6_PageRequestsAdvance ==
  /\ \A k \in 1..Len(hlog) :
       /\ DOMAIN hlog[k] = {"from", "limit"} \cup DOMAIN hcall.queryParams
       /\ hlog[k]["from"] = Num(1 + (k - 1) * hcall.limit)
       /\ hlog[k]["limit"] = Num(hcall.limit)
       /\ \A f \in DOMAIN hcall.queryParams : hlog[k][f] = hcall.queryParams[f]
  /\ \A r \in pending : Len(hlog) > 0 /\ r.req.qs = hlog[Len(hlog)]
  /\ Len(hpages) <= Len(hlog)
  /\ \A k \in 1..Len(hpages) : k < Len(hlog) => hpages[k] = hcall.limit
  /\ hpc = "returned" =>
       (Len(hpages) = Len(hlog) /\ hpages[Len(hpages)] < hcall.limit /\ pending = {})

\* three requests with filters, the third page short
C6_Witness ==
  /\ hpc = "returned"
  /\ Len(hlog) = 3
  /\ hcall.limit = 2
  /\ DOMAIN hcall.queryParams = {"assigneeId", "status"}
  /\ hlog[3]["from"] = Num(5)
  /\ hpages = <<2, 2, 1>>

\* C7: at most one request is in flight, it belongs to the item being
\* processed, no request was issued for a later item, and the records pushed
\* so far belong to finished items in non-decreasing item order.
C7_OneAtATime ==
  /\ Cardinality(pending) <= 1
  /\ \A r \in pending : r.item = i /\ pc \in {"await", "paging"}
  /\ \A j \in DOMAIN sent : j > i => sent[j] = 0
  /\ \A k \in 1..Len(returnData) :
       /\ returnData[k].pairedItem <= i
       /\ pc \in {"await", "paging"} => returnData[k].pairedItem < i
  /\ \A k \in 1..(Len(returnData) - 1) :
       returnData[k].pairedItem <= returnData[k + 1].pairedItem

\* the request of item 1 is in flight after the record of item 0 was pushed
C7_Witness ==
  /\ pc = "await"
  /\ i = 1
  /\ Cardinality(pending) = 1
  /\ Len(returnData) = 1
  /\ returnData[1].pairedItem = 0
  /\ sent[0] = 1

\* C8: every identifier in the path, the body or the query of a request
\* handed to the transport is a string of at least 10 digits or holds a
\* {{...}} placeholder.
C8_IdentifiersWellFormed ==
  \A r \in pending :
    LET ValidIdentifier(x) ==
          x.t = "string" /\ (ZOHO_DESK_ID_PATTERN(x.v) \/ N8N_EXPRESSION_PATTERN(x.v))
        idFields == {"departmentId", "teamId", "accountId", "assigneeId", "contactId",
                     "productId"}
        idLists == {"ticketIds", "contactIds", "accountIds"}
    IN /\ r.req.id # <<>> =>
            \E k \in DOMAIN params :
              /\ params[k].t = "string"
              /\ encodeURIComponent(params[k].v) = r.req.id
              /\ ValidIdentifier(params[k])
       /\ \A k \in DOMAIN r.req.body \cap idFields : ValidIdentifier(r.req.body[k])
       /\ \A k \in DOMAIN r.req.body \cap idLists :
            \A n \in 1..Len(r.req.body[k].v) : ValidIdentifier(r.req.body[k].v[n])
       /\ \A k \in DOMAIN r.req.qs \cap idFields : ValidIdentifier(r.req.qs[k])

\* C9: a ticket-create request whose body holds a contact has in it a
\* non-empty valid email or a non-empty lastName.  With no due date given
\* (the due date is validated first), a fragment with only firstName or phone
\* set fails with ContactValidationFailed, and a fragment with only a valid
\* email or only a lastName set does not fail on the contact.
C9_ContactHasEmailOrLastName ==
  /\ \A r \in pending :
       (r.req.method = "POST" /\ r.req.endpoint = "/tickets"
          /\ "contact" \in DOMAIN r.req.body) =>
         LET c == r.req.body["contact"].v
         IN \/ /\ "email" \in DOMAIN c
               /\ c["email"].v # <<>>
               /\ RFC5322_EMAIL_PATTERN(c["email"].v)
               /\ Len(c["email"].v) <= EMAIL_MAX_LENGTH
            \/ /\ "lastName" \in DOMAIN c
               /\ c["lastName"].v # <<>>
  /\ (resource = "ticket" /\ operation = "create" /\ params # NoParams
        /\ Trim(params["dueDate"].v) = <<>>) =>
       LET fragment == Get(params["contact"].v, "contactValues")
           set(f) == /\ fragment.t = "object"
                     /\ Truthy(Get(fragment.v, f))
                     /\ Trim(JsString(Get(fragment.v, f))) # <<>>
           only(fs) == \A f \in {"email", "lastName", "firstName", "phone"} :
                         set(f) => f \in fs
           failed == pc \in {"loop", "raised", "done"}
           kind == failures[IF pc = "raised" THEN i ELSE i - 1].kind
       IN /\ ((set("firstName") \/ set("phone")) /\ only({"firstName", "phone"})) =>
               (failed /\ kind = "ContactValidationFailed")
          /\ (\/ set("lastName") /\ only({"lastName"})
              \/ /\ set("email") /\ only({"email"})
                 /\ isValidEmail(Trim(JsString(Get(fragment.v, "email"))))) =>
               (failed => kind \notin {"ContactValidationFailed", "ContactFieldInvalid",
                                       "InvalidEmailFormat"})

\* a ticket-create request is in flight whose contact holds the email alone,
\* the lastName given being empty
C9_Witness ==
  \E r \in pending :
    /\ r.req.endpoint = "/tickets"
    /\ "contact" \in DOMAIN r.req.body
    /\ DOMAIN r.req.body["contact"].v = {"email"}
    /\ Get(Get(params["contact"].v, "contactValues").v, "lastName") = Str(EMPTY)

\* C10: the ticket-create request built from the example {departmentId:
\* '1892000000006907', subject: 'Help', contact: {email: 'a@b.com', lastName:
\* 'Doe'}, dueDate: '2025-12-01T10:00:00', tags: 'urgent, billing'} holds
\* departmentId, subject, a contact with exactly email and lastName, a
\* dueDate of the form YYYY-MM-DDTHH:mm:ss.sssZ, and tags [urgent, billing].
C10_ExamplePayload ==
  \A r \in pending :
    (resource = "ticket" /\ operation = "create" /\ params = EXAMPLE_TICKET) =>
      LET body == r.req.body
      IN /\ Get(body, "departmentId") = Str(VALID_ID)
         /\ Get(body, "subject") = Str(HELP)
         /\ "contact" \in DOMAIN body
         /\ body["contact"] = Obj(Object({<<"email", Str(EMAIL_OK)>>, <<"lastName", Str(DOE)>>}))
         /\ "dueDate" \in DOMAIN body
         /\ Len(body["dueDate"].v) = 24
         /\ body["dueDate"].v[20] = "."
         /\ AllDigits(SubSeq(body["dueDate"].v, 21, 23))
         /\ body["dueDate"].v[24] = "Z"
         /\ "tags" \in DOMAIN body
         /\ body["tags"] = Arr(<<Str(<<"u", "r", "g", "e", "n", "t">>),
                                 Str(<<"b", "i", "l", "l", "i", "n", "g">>)>>)

(***************************************************************************)
(* What the claims below say of the item whose parameters are in params.   *)
(***************************************************************************)
\* the item failed (it is then the last one processed), and its error
LastFailed == params # NoParams /\ pc \in {"loop", "raised", "done"}

LastFailure == failures[IF pc = "raised" THEN i ELSE i - 1]

\* the collection of optional fields of a create or update operation
OptionalSource ==
  IF "updateFields" \in DOMAIN params THEN params["updateFields"].v
  ELSE params["additionalFields"].v

\* the field list the operation hands to addOptionalFields
OptionalFields ==
  LET list == CASE resource = "ticket" /\ operation = "create" -> TICKET_CREATE_OPTIONAL_FIELDS
                [] resource = "ticket" -> TICKET_UPDATE_OPTIONAL_FIELDS
                [] resource = "contact" /\ operation = "create" -> CONTACT_CREATE_OPTIONAL_FIELDS
                [] resource = "contact" -> CONTACT_UPDATE_OPTIONAL_FIELDS
                [] operation = "create" -> ACCOUNT_CREATE_OPTIONAL_FIELDS
                [] OTHER -> ACCOUNT_UPDATE_OPTIONAL_FIELDS
  IN {list[k] : k \in 1..Len(list)}

\* the identifier of an update operation is well formed
UpdateIdValid ==
  LET id == CASE resource = "ticket" -> params["ticketId"].v
              [] resource = "contact" -> params["contactId"].v
              [] OTHER -> params["accountId"].v
  IN ZOHO_DESK_ID_PATTERN(Trim(id))

C11_WitnessUndefined ==
  \E r \in pending :
    /\ operation = "update"
    /\ "status" \in DOMAIN OptionalSource
    /\ OptionalSource["status"] = Undefined
    /\ DOMAIN r.req.body = {"priority"}

\* the email of the contact fragment of ticket create (Undefined when none)
FragmentEmail ==
  LET contactValues == Get(params["contact"].v, "contactValues")
  IN IF contactValues.t = "object" THEN Get(contactValues.v, "email") ELSE Undefined

\* the item failed on the length of a field, before any request, with the
\* limit and the length received in the error
FailedTooLong(limit, length) ==
  /\ LastFailed
  /\ LastFailure.kind = "FieldTooLong"
  /\ LastFailure.message =
       "{0} exceeds maximum length of {1} characters ({2} provided). Please shorten your input and try again."
  /\ Len(LastFailure.args) = 3
  /\ LastFailure.args[2] = Num(limit)
  /\ LastFailure.args[3] = Num(length)
  /\ sent[IF pc = "raised" THEN i ELSE i - 1] = 0

\* the item did not fail on its email
EmailAccepted ==
  LastFailed => LastFailure.kind \notin {"FieldTooLong", "InvalidEmailFormat"}

\* C13: on every path that accepts an email (the contact fragment of ticket
\* create, contact create, an email field copied by addOptionalFields) a
\* well-formed email of exactly EMAIL_MAX_LENGTH characters is accepted and
\* reaches the payload, and one a character longer fails with a FieldTooLong
\* error that holds the limit and the length received.
C13_EmailLimitOnEveryPath ==
  params # NoParams =>
    /\ (resource = "ticket" /\ operation = "create" /\ params["dueDate"].v = EMPTY) =>
         /\ FragmentEmail = Str(EMAIL_AT_LIMIT) =>
              /\ EmailAccepted
              /\ \A r \in pending :
                   Get(Get(r.req.body, "contact").v, "email") = Str(EMAIL_AT_LIMIT)
         /\ FragmentEmail = Str(EMAIL_OVER_LIMIT) =>
              FailedTooLong(EMAIL_MAX_LENGTH, EMAIL_MAX_LENGTH + 1)
    /\ (resource = "contact" /\ operation = "create") =>
         /\ params["email"] = Str(EMAIL_AT_LIMIT) =>
              /\ EmailAccepted
              /\ \A r \in pending : Get(r.req.body, "email") = Str(EMAIL_AT_LIMIT)
         /\ params["email"] = Str(EMAIL_OVER_LIMIT) =>
              FailedTooLong(EMAIL_MAX_LENGTH, EMAIL_MAX_LENGTH + 1)
    /\ (operation \in {"create", "update"} /\ "email" \in OptionalFields
          /\ (operation = "update" => UpdateIdValid)) =>
         /\ Get(OptionalSource, "email") = Str(EMAIL_AT_LIMIT) =>
              /\ EmailAccepted
              /\ \A r \in pending : Get(r.req.body, "email") = Str(EMAIL_AT_LIMIT)
         /\ Get(OptionalSource, "email") = Str(EMAIL_OVER_LIMIT) =>
              FailedTooLong(EMAIL_MAX_LENGTH, EMAIL_MAX_LENGTH + 1)

\* the parameter a scalar key of a create or update body is copied from
ScalarSource(k) ==
  IF k \in DOMAIN OptionalSource /\ (k \in OptionalFields \/ operation = "update")
  THEN OptionalSource[k]
  ELSE Get(params, k)

\* C12: every string copied into the body of a create or update request
\* equals its source character for character, a field of the contact
\* fragment equals its trimmed source, and a value over the limit of its
\* field (email) makes the item fail with a FieldTooLong error.
C12_NoFieldAlteredOrTruncated ==
  (operation \in {"create", "update"} /\ params # NoParams) =>
    /\ \A r \in pending :
         \A k \in DOMAIN r.req.body \ {"dueDate", "contact", "cf", "secondaryContacts"} :
           ScalarSource(k).t = "string" => r.req.body[k] = ScalarSource(k)
    /\ \A r \in pending :
         "contact" \in DOMAIN r.req.body =>
           \A f \in DOMAIN r.req.body["contact"].v :
             r.req.body["contact"].v[f] =
               Str(Trim(JsString(params["contact"].v["contactValues"].v[f])))
    /\ (resource = "ticket" /\ operation = "create" /\ params["dueDate"].v = EMPTY
          /\ FragmentEmail.t = "string"
          /\ Len(Trim(FragmentEmail.v)) > EMAIL_MAX_LENGTH) =>
         FailedTooLong(EMAIL_MAX_LENGTH, Len(Trim(FragmentEmail.v)))
    /\ (resource = "contact" /\ operation = "create"
          /\ Len(params["email"].v) > EMAIL_MAX_LENGTH) =>
         FailedTooLong(EMAIL_MAX_LENGTH, Len(params["email"].v))
    /\ ("email" \in OptionalFields /\ (operation = "update" => UpdateIdValid)
          /\ Get(OptionalSource, "email").t = "string"
          /\ Len(Get(OptionalSource, "email").v) > EMAIL_MAX_LENGTH) =>
         FailedTooLong(EMAIL_MAX_LENGTH, Len(OptionalSource["email"].v))

\* s holds two opening braces, at least one character, two closing braces
HasPlaceholder(s) ==
  \E a \in 1..Len(s) : \E b \in (a + 3)..(Len(s) - 1) :
    /\ s[a] = "{" /\ s[a + 1] = "{"
    /\ s[b] = "}" /\ s[b + 1] = "}"

\* C14: in the operations whose one identifier is validated by
\* isValidTicketId or isValidZohoDeskId (get, delete, addComment,
\* listThreads) the item is rejected with InvalidIdentifierFormat, before any
\* request, iff its trimmed identifier neither holds a {{...}} placeholder
\* with at least one character inside nor consists of 10 or more decimal
\* digits: '1234567890' passes, '123456789' fails.
C14_IdentifierAcceptedIff ==
  (operation \in {"get", "delete", "addComment", "listThreads"} /\ params # NoParams) =>
    LET id == CASE resource = "ticket" -> params["ticketId"].v
                [] resource = "contact" -> params["contactId"].v
                [] OTHER -> params["accountId"].v
        trimmed == Trim(id)
        acceptable == \/ HasPlaceholder(trimmed)
                      \/ Len(trimmed) >= 10 /\ AllDigits(trimmed)
        rejected == LastFailed /\ LastFailure.kind = "InvalidIdentifierFormat"
    IN /\ acceptable <=> ~rejected
       /\ rejected => sent[IF pc = "raised" THEN i ELSE i - 1] = 0
       /\ id = TEN_DIGITS => ~rejected
       /\ id = NINE_DIGITS => rejected

\* the item is rejected for its custom fields with message, before any request
CustomFieldsRejected(message, args) ==
  /\ LastFailed
  /\ LastFailure.kind = "CustomFieldsInvalid"
  /\ LastFailure.message = message
  /\ LastFailure.args = args
  /\ pending = {}
  /\ sent[IF pc = "raised" THEN i ELSE i - 1] = 0

\* C15: where cf is the one input of a create or update operation that can
\* fail, a pre-parsed object and a string that parses to an object are
\* accepted and reach the body as that object; a string that parses to an
\* array or a primitive, a pre-parsed array, number or null are rejected with
\* CustomFieldsInvalid ("must be a JSON object"), and a string that does not
\* parse is rejected with CustomFieldsInvalid, the message holding the
\* parser's error text and the example {"cf_field": "value"}; a rejected
\* item has no request sent, hence no body with a cf key.
C15_CustomFields ==
  (/\ operation \in {"create", "update"}
   /\ params # NoParams
   /\ "cf" \in DOMAIN OptionalSource
   /\ operation = "update" => UpdateIdValid
   /\ (resource = "contact" /\ operation = "create") => params["email"] = Str(EMAIL_OK)) =>
    LET cf == OptionalSource["cf"]
        notObject == "Custom fields must be a JSON object, not an array or primitive value."
        notJson == "Custom fields must be valid JSON. Parse error: {0}. Please ensure your JSON is properly formatted, e.g., {\"cf_field\": \"value\"}."
        accepted(object) ==
          /\ LastFailed => LastFailure.kind = "RemoteApiError"
          /\ \A r \in pending : Get(r.req.body, "cf") = Obj(object)
    IN /\ cf = Str(CF_OBJECT) => accepted(Object({<<<<"c", "f", "_", "x">>, Str(<<"y">>)>>}))
       /\ cf = Obj(Object({<<CF_X, Str(TEXT)>>, <<CF_Y, Null>>})) =>
            accepted(Object({<<CF_X, Str(TEXT)>>}))
       /\ cf \in {Str(CF_ARRAY), Str(CF_STRING), Arr(<<Num(1), Num(2)>>), Num(7), Null} =>
            CustomFieldsRejected(notObject, <<>>)
       /\ cf \in {Str(CF_BAD), Str(EMPTY)} =>
            CustomFieldsRejected(notJson, <<Name(JSON_SYNTAX_ERROR)>>)

\* with continueOnFail on, item 0 was rejected for a cf that is no object and
\* the request of item 1, whose cf parses to an object, is in flight
C15_Witness ==
  /\ pc = "await"
  /\ i = 1
  /\ failures[0].kind = "CustomFieldsInvalid"
  /\ failures[0].message =
       "Custom fields must be a JSON object, not an array or primitive value."
  /\ sent[0] = 0
  /\ OptionalSource = Object({<<"cf", Str(CF_OBJECT)>>})
  /\ \E r \in pending :
       r.req.body["cf"] = Obj(Object({<<<<"c", "f", "_", "x">>, Str(<<"y">>)>>}))

\* C16: parseCommaSeparatedList gives [a, b, c] for 'a, , b,,c' and the empty
\* list for an empty or all-white-space list.  A ticket create or update body
\* holds secondaryContacts (or tags) only as a list of at least one segment,
\* each trimmed, non-empty and without a comma: [a, b, c] for 'a, , b,,c',
\* and no such key, and no error, for ' ' and ' , ,'.
C16_CommaSeparatedList ==
  /\ parseCommaSeparatedList(Str(SECONDARY)) = <<<<"a">>, <<"b">>, <<"c">>>>
  /\ parseCommaSeparatedList(Str(ALL_EMPTY_LIST)) = <<>>
  /\ parseCommaSeparatedList(Str(BLANK)) = <<>>
  /\ parseCommaSeparatedList(Str(EMPTY)) = <<>>
  /\ (resource = "ticket" /\ operation \in {"create", "update"} /\ params # NoParams) =>
       LET given == Get(OptionalSource, "secondaryContacts")
       IN /\ \A r \in pending : \A f \in DOMAIN r.req.body \cap {"secondaryContacts", "tags"} :
               LET list == r.req.body[f].v
               IN /\ r.req.body[f].t = "array"
                  /\ Len(list) >= 1
                  /\ \A k \in 1..Len(list) :
                       /\ list[k].t = "string"
                       /\ list[k].v # <<>>
                       /\ Trim(list[k].v) = list[k].v
                       /\ \A m \in 1..Len(list[k].v) : list[k].v[m] # ","
          /\ given = Str(SECONDARY) =>
               \A r \in pending :
                 Get(r.req.body, "secondaryContacts") = Arr(<<Str(<<"a">>), Str(<<"b">>), Str(<<"c">>)>>)
          /\ (given \in {Str(BLANK), Str(ALL_EMPTY_LIST)} /\ "cf" \notin DOMAIN OptionalSource
                /\ (operation = "update" => UpdateIdValid)) =>
               /\ LastFailed => LastFailure.kind = "RemoteApiError"
               /\ \A r \in pending : "secondaryContacts" \notin DOMAIN r.req.body

\* a ticket update is in flight for the list ' , ,': no secondaryContacts key
C16_Witness ==
  \E r \in pending :
    /\ resource = "ticket"
    /\ r.req.method = "PATCH"
    /\ OptionalSource = Object({<<"secondaryContacts", Str(ALL_EMPTY_LIST)>>})
    /\ "secondaryContacts" \notin DOMAIN r.req.body

\* a ticket create is in flight for 'a, , b,,c' with secondaryContacts [a, b, c]
C16_WitnessList ==
  \E r \in pending :
    /\ resource = "ticket"
    /\ operation = "create"
    /\ Get(OptionalSource, "secondaryContacts") = Str(SECONDARY)
    /\ Get(r.req.body, "secondaryContacts") = Arr(<<Str(<<"a">>), Str(<<"b">>), Str(<<"c">>)>>)

\* the due date given to ticket create or ticket update (Undefined when none)
DueDateGiven ==
  IF operation = "create" THEN params["dueDate"] ELSE Get(params["updateFields"].v, "dueDate")

\* the item was rejected for its due date before any request
DueDateRejected ==
  /\ LastFailed
  /\ LastFailure.kind = "InvalidDueDate"
  /\ pending = {}
  /\ sent[IF pc = "raised" THEN i ELSE i - 1] = 0

\* '2025-12-01T10:00:00', a local time, as the UTC timestamp of the host
DUE_LOCAL_CANONICAL ==
  SubSeq(DUE_LOCAL, 1, 11) \o (IF timezone = 0 THEN <<"1", "0">> ELSE <<"1", "5">>)
    \o <<":", "0", "0", ":", "0", "0", ".", "0", "0", "0", "Z">>

\* C17 as stated: an empty or white-space due date fails with InvalidDueDate
\* in ticket create and is sent as '' without error in ticket update; an
\* unparseable one fails on both paths; a parseable one is replaced by its
\* canonical timestamp.
C17_EmptyDueDateFailsOnCreate ==
  (resource = "ticket" /\ operation \in {"create", "update"} /\ params # NoParams
     /\ (operation = "update" => UpdateIdValid)
     /\ DueDateGiven.t = "string") =>
    /\ Trim(DueDateGiven.v) = <<>> =>
         IF operation = "create" THEN DueDateRejected
         ELSE /\ LastFailed => LastFailure.kind # "InvalidDueDate"
              /\ \A r \in pending : Get(r.req.body, "dueDate") = Str(EMPTY)
    /\ DueDateGiven.v = DUE_BAD => DueDateRejected
    /\ DueDateGiven.v = DUE_UTC => \A r \in pending : Get(r.req.body, "dueDate") = Str(DUE_UTC)
    /\ DueDateGiven.v = DUE_LOCAL =>
         \A r \in pending : Get(r.req.body, "dueDate") = Str(DUE_LOCAL_CANONICAL)

\* C17 (amended): convertDateToTimestamp fails with InvalidDueDate on an
\* empty or white-space value, but no call site hands it one: with such a
\* due date ticket create sends no dueDate and ticket update sends dueDate
\* '', neither with an error.  A due date that does not parse fails with
\* InvalidDueDate on both paths before any request, and one that parses is
\* in the body as YYYY-MM-DDTHH:mm:ss.sssZ, the UTC time of the value.
C17_DueDate ==
  /\ convertDateToTimestamp(EMPTY, "Due Date", timezone).err.kind = "InvalidDueDate"
  /\ convertDateToTimestamp(BLANK, "Due Date", timezone).err.kind = "InvalidDueDate"
  /\ (resource = "ticket" /\ operation \in {"create", "update"} /\ params # NoParams
        /\ (operation = "update" => UpdateIdValid)
        /\ DueDateGiven.t = "string") =>
       /\ Trim(DueDateGiven.v) = <<>> =>
            /\ LastFailed => LastFailure.kind # "InvalidDueDate"
            /\ \A r \in pending :
                 IF operation = "create" THEN "dueDate" \notin DOMAIN r.req.body
                 ELSE Get(r.req.body, "dueDate") = Str(EMPTY)
       /\ DueDateGiven.v = DUE_BAD => DueDateRejected
       /\ DueDateGiven.v = DUE_UTC =>
            \A r \in pending : Get(r.req.body, "dueDate") = Str(DUE_UTC)
       /\ DueDateGiven.v = DUE_LOCAL =>
            \A r \in pending : Get(r.req.body, "dueDate") = Str(DUE_LOCAL_CANONICAL)
       /\ \A r \in pending :
            ("dueDate" \in DOMAIN r.req.body /\ r.req.body["dueDate"].v # <<>>) =>
              LET sentDate == r.req.body["dueDate"].v
              IN /\ Len(sentDate) = 24
                 /\ sentDate[20] = "."
                 /\ AllDigits(SubSeq(sentDate, 21, 23))
                 /\ sentDate[24] = "Z"

\* a ticket create with a white-space due date is in flight, without dueDate
C17_Witness ==
  \E r \in pending :
    /\ resource = "ticket"
    /\ operation = "create"
    /\ params["dueDate"] = Str(BLANK)
    /\ "dueDate" \notin DOMAIN r.req.body

\* a ticket update is in flight whose local due date went out as UTC, five
\* hours later
C17_WitnessCanonical ==
  \E r \in pending :
    /\ resource = "ticket"
    /\ operation = "update"
    /\ timezone = 0 - 300
    /\ Get(params["updateFields"].v, "dueDate") = Str(DUE_LOCAL)
    /\ Get(r.req.body, "dueDate") =
         Str(SubSeq(DUE_LOCAL, 1, 11) \o <<"1", "5">>
             \o <<":", "0", "0", ":", "0", "0", ".", "0", "0", "0", "Z">>)

\* C18: a list operation reads the items of a response from its data key,
\* and an item whose list response came without that key ends with an
\* error, not with an empty result; this for the bounded list operations and
\* for getAllPaginatedItems alike.
C18_MissingKeyFails ==
  (operation \in {"list", "listThreads"} /\ pc \in {"loop", "done"} /\ i > 0
     /\ sent[i - 1] > 0) =>
    /\ source.key # "data" => IsError(failures[i - 1])
    /\ (source.key = "data" /\ ~IsError(failures[i - 1])) =>
         LET records == SelectSeq(returnData, LAMBDA r : r.pairedItem = i - 1)
         IN \A k \in 1..Len(records) : records[k].json = Num(k)

\* C19: getDepartments and getTeams never raise.  Whatever fails (the
\* credentials lookup, the request, a response that is no object, lacks the
\* key of the loader, holds no array under it or holds a null entry), the
\* loader returns one error-labelled option with an empty value; getTeams
\* without a department returns no option; otherwise the options are the
\* entries of the response, name and id.
C19_LoadersNeverRaise ==
  LET key == IF operation = "getDepartments" THEN "data" ELSE "teams"
      department == Get(params, "departmentId")
      requested == operation = "getDepartments"
                     \/ (department.t = "string" /\ department.v # <<>>)
      response == source.outcome.response
      wellFormed == /\ response.t = "object"
                    /\ key \in DOMAIN response.v
                    /\ response.v[key].t = "array"
                    /\ \A k \in 1..Len(response.v[key].v) : response.v[key].v[k].t = "object"
      failed == \/ ~source.credentials
                \/ requested /\ (IsError(source.outcome.err) \/ ~wellFormed)
  IN /\ thrown = NoError
     /\ pc \in {"load", "loading", "loaded"}
     /\ pc = "loaded" =>
          /\ output.returned
          /\ pending = {}
          /\ failed =>
               /\ Len(output.data) = 1
               /\ output.data[1].name.t = "error label"
               /\ output.data[1].name.v.what = Loaded
               /\ output.data[1].name.v.message = failures[0].message
               /\ output.data[1].value = Str(EMPTY)
               /\ IsError(failures[0])
          /\ (~failed /\ ~requested) => (output.data = <<>> /\ sent[0] = 0)
          /\ (~failed /\ requested) =>
               /\ Len(output.data) = Len(response.v[key].v)
               /\ \A k \in 1..Len(output.data) :
                    /\ output.data[k].name = Get(response.v[key].v[k].v, "name")
                    /\ output.data[k].value = Get(response.v[key].v[k].v, "id")

\* getTeams was answered with {data: [...]}, a response without the teams
\* key, and returned the error-labelled option
C19_Witness ==
  /\ operation = "getTeams"
  /\ pc = "loaded"
  /\ sent[0] = 1
  /\ source.outcome.response = Obj(Object({<<"data", Arr(<<LOADED_ITEM>>)>>}))
  /\ Len(output.data) = 1
  /\ output.data[1].name.t = "error label"
  /\ output.data[1].value = Str(EMPTY)

\* the contact fragment of ticket create is absent, or every field in it is
\* empty or white space
FragmentEmpty ==
  LET contactValues == Get(params["contact"].v, "contactValues")
  IN \/ contactValues.t = "undefined"
     \/ /\ contactValues.t = "object"
        /\ \A f \in DOMAIN contactValues.v :
             \/ contactValues.v[f].t \in {"undefined", "null"}
             \/ /\ contactValues.v[f].t = "string"
                /\ \A k \in 1..Len(contactValues.v[f].v) :
                     contactValues.v[f].v[k] \in WhiteSpace

\* C20: in ticket create with an absent or all-empty contact fragment no
\* contact error is raised and the request, when nothing else is wrong with
\* the item, is sent, its body without a contact key; the email-or-lastName
\* error is raised only for a fragment with a non-empty field.
C20_ContactFragmentOptional ==
  (resource = "ticket" /\ operation = "create" /\ params # NoParams) =>
    LET item == IF pc \in {"await", "raised"} THEN i ELSE i - 1
    IN /\ FragmentEmpty =>
            /\ LastFailed =>
                 LastFailure.kind \notin {"ContactValidationFailed", "ContactFieldInvalid",
                                          "InvalidEmailFormat"}
            /\ \A r \in pending : "contact" \notin DOMAIN r.req.body
            /\ (Trim(params["dueDate"].v) = <<>>
                  /\ params["additionalFields"].v = EmptyObject) =>
                 /\ sent[item] = 1
                 /\ LastFailed => LastFailure.kind = "RemoteApiError"
       /\ (/\ LastFailed
            /\ LastFailure.message =
                 "Contact validation failed: Either email or lastName must be provided.") =>
            ~FragmentEmpty

\* a ticket create is in flight, without contact, for the fragment
\* {email: '', lastName: ' ', firstName: ''}
C20_Witness ==
  \E r \in pending :
    /\ resource = "ticket"
    /\ operation = "create"
    /\ Get(params["contact"].v, "contactValues").t = "object"
    /\ DOMAIN Get(params["contact"].v, "contactValues").v = {"email", "lastName", "firstName"}
    /\ FragmentEmpty
    /\ r.req.endpoint = "/tickets"
    /\ "contact" \notin DOMAIN r.req.body

\* C21: isValidEmail accepts a value iff it matches RFC5322_EMAIL_PATTERN and
\* holds at most EMAIL_MAX_LENGTH characters.  Contact create rejects its
\* email with InvalidEmailFormat, before any request, iff one of the two
\* fails: a well-formed address of 255 characters is rejected on its length
\* alone, one of 254 is accepted, 'not-an-email' and 255 characters without
\* an at sign are rejected.  In the contact fragment of ticket create, where
\* the length was checked before, the trimmed email is rejected iff it does
\* not match the pattern.
C21_EmailAcceptedIff ==
  LET rejected == LastFailed /\ LastFailure.kind = "InvalidEmailFormat"
  IN /\ (resource = "contact" /\ operation = "create" /\ params # NoParams) =>
          LET email == params["email"].v
          IN /\ rejected <=>
                  ~(RFC5322_EMAIL_PATTERN(email) /\ Len(email) <= EMAIL_MAX_LENGTH)
             /\ rejected => (LastFailure.args = <<Str(email)>>
                              /\ sent[IF pc = "raised" THEN i ELSE i - 1] = 0)
             /\ email = EMAIL_OVER_LIMIT => (RFC5322_EMAIL_PATTERN(email) /\ rejected)
             /\ email = EMAIL_AT_LIMIT => ~rejected
             /\ email \in {EMAIL_BAD, EMAIL_LONG_NO_AT} => rejected
     /\ (resource = "ticket" /\ operation = "create" /\ params # NoParams) =>
          ((params["dueDate"].v = EMPTY /\ FragmentEmail.t = "string"
              /\ Trim(FragmentEmail.v) # <<>>
              /\ Len(Trim(FragmentEmail.v)) <= EMAIL_MAX_LENGTH) =>
             (rejected <=> ~RFC5322_EMAIL_PATTERN(Trim(FragmentEmail.v))))

\* a contact create was rejected for a well-formed email of 255 characters
C21_Witness ==
  /\ resource = "contact"
  /\ operation = "create"
  /\ LastFailed
  /\ params["email"].v = EMAIL_OVER_LIMIT
  /\ RFC5322_EMAIL_PATTERN(EMAIL_OVER_LIMIT)
  /\ LastFailure.kind = "InvalidEmailFormat"

\* a contact create is in flight with a domain label of 63 characters
C21_WitnessLabel ==
  \E r \in pending :
    /\ resource = "contact"
    /\ r.req.method = "POST"
    /\ Get(r.req.body, "email") = Str(EMAIL_LABEL_63)

\* the organization and the base URL execute would read from the store now
StoredBaseUrl ==
  IF credentials.baseUrl # "" THEN credentials.baseUrl ELSE DEFAULT_BASE_URL

\* C22: one run of execute reads the credentials exactly once, before the
\* first item is processed and before any request is issued, and every
\* request of the batch carries the organization id and the base URL read
\* then, even when the stored credentials change during the run.
C22_CredentialsReadOnce ==
  /\ [](/\ pc = "start" =>
             (credentialReads = 0 /\ i = 0 /\ params = NoParams /\ pending = {}
                /\ \A j \in DOMAIN sent : sent[j] = 0)
        /\ pc # "start" => credentialReads = 1
        /\ \A r \in pending : r.orgId = orgId /\ r.baseUrl = baseUrl
        /\ hpc # "idle" => (hcall.orgId = orgId /\ hcall.baseUrl = baseUrl))
  /\ [][/\ pc = "start" /\ pc' # "start" =>
             (orgId' = credentials.orgId /\ baseUrl' = StoredBaseUrl)
        /\ pc # "start" => (orgId' = orgId /\ baseUrl' = baseUrl)]_vars

\* a request is in flight for the second item with the organization read
\* at the start, after the stored credentials were changed
C22_Witness ==
  \E r \in pending :
    /\ r.item = 1
    /\ credentialReads = 1
    /\ r.orgId = orgId
    /\ r.orgId # credentials.orgId
    /\ r.baseUrl # StoredBaseUrl

\* the request in flight r is the one the current item asks for on a host
\* whose local time is tz minutes ahead of UTC: the request of its plan, or
\* a page request of getAllPaginatedItems for it
RequestOfItem(r, tz) ==
  \E own \in {ItemPlan(resource, operation, params, tz)} :
    /\ ~IsError(own.err)
    /\ r.item = i
    /\ r.orgId = orgId
    /\ r.baseUrl = baseUrl
    /\ IF own.body.mode = "all"
       THEN /\ pc = "paging"
            /\ from \in {1 + k * LIST_PAGE_SIZE : k \in 0..(MaxFullPages + 1)}
            /\ r.req = Request("GET", own.body.req.endpoint, own.body.req.id, EmptyObject,
                                Spread(Object({<<"from", Num(from)>>,
                                               <<"limit", Num(LIST_PAGE_SIZE)>>}),
                                       own.body.req.qs))
       ELSE /\ pc = "await"
            /\ r.req = own.body.req

GivenIdFields ==
  {k \in DOMAIN OptionalSource \cap OptionalFields :
     EndsWithId(k) /\ OptionalSource[k].t # "undefined"}

\* the value of an Id field is checked: a string that is not blank
IdChecked(k) == OptionalSource[k].t = "string" /\ Trim(OptionalSource[k].v) # <<>>

\* a checked value is well formed: all digits, at least 10 of them, or with
\* a {{...}} placeholder (surrounding white space aside)
IdWellFormed(k) ==
  LET trimmed == Trim(OptionalSource[k].v)
  IN \/ HasPlaceholder(trimmed)
     \/ Len(trimmed) >= MIN_TICKET_ID_LENGTH /\ AllDigits(trimmed)

\* the checks a create operation makes before addOptionalFields pass: the
\* email of contact create, the due date and the contact of ticket create
BeforeOptionalFieldsPasses ==
  CASE resource = "contact" /\ operation = "create" ->
         RFC5322_EMAIL_PATTERN(params["email"].v)
           /\ Len(params["email"].v) <= EMAIL_MAX_LENGTH
    [] resource = "ticket" /\ operation = "create" ->
         params["dueDate"].v = EMPTY /\ params["contact"] = Obj(EmptyObject)
    [] OTHER -> TRUE

\* C24: in a create or update operation every Id field of the field list
\* that is in the body of the request was copied unchanged, and was either
\* not checked (not a string, or a blank string) or well formed: all digits
\* with at least 10 of them, or holding a {{...}} placeholder.  An item
\* with a checked Id field of any other value sends no request, and an item
\* fails with InvalidIdentifierFormat in addOptionalFields only for such a
\* field, the error holding the trimmed value.
C24_IdFieldsChecked ==
  (operation \in {"create", "update"} /\ params # NoParams
     /\ (operation = "update" => UpdateIdValid)) =>
    /\ \A r \in pending : \A k \in GivenIdFields :
         /\ Get(r.req.body, k) = OptionalSource[k]
         /\ IdChecked(k) => IdWellFormed(k)
    /\ (\E k \in GivenIdFields : IdChecked(k) /\ ~IdWellFormed(k)) =>
         /\ pending = {}
         /\ LastFailed => sent[IF pc = "raised" THEN i ELSE i - 1] = 0
         /\ (LastFailed /\ DOMAIN OptionalSource \subseteq GivenIdFields
               /\ BeforeOptionalFieldsPasses) =>
              LastFailure.kind = "InvalidIdentifierFormat"
    /\ (LastFailed /\ LastFailure.kind = "InvalidIdentifierFormat") =>
         \E k \in GivenIdFields :
           /\ IdChecked(k)
           /\ ~IdWellFormed(k)
           /\ LastFailure.args[2] = Str(Trim(OptionalSource[k].v))

\* the object the cf parameter of the item denotes: itself, or the value of
\* its JSON text
CustomFieldsInput ==
  IF OptionalSource["cf"].t = "string"
  THEN JSONParse(OptionalSource["cf"].v).value.v
  ELSE OptionalSource["cf"].v

C25_WitnessText ==
  \E r \in pending :
    /\ operation = "update"
    /\ "cf" \in DOMAIN OptionalSource
    /\ OptionalSource["cf"] = Str(CF_MIXED)
    /\ DOMAIN r.req.body["cf"].v = {CF_Y, CF_Z}

\* the fields of a contact fragment
ContactFragmentFields == {"email", "lastName", "firstName", "phone", "mobile"}

\* the contactValues of the item of a ticket create
FragmentValues == Get(params["contact"].v, "contactValues")

\* the contact of ticket create is built: contactValues is a plain object
\* with a value that is truthy and not blank, and the due date passes
FragmentBuilt ==
  /\ resource = "ticket"
  /\ operation = "create"
  /\ params # NoParams
  /\ params["dueDate"].v = EMPTY
  /\ FragmentValues.t = "object"
  /\ \E k \in DOMAIN FragmentValues.v :
       Truthy(FragmentValues.v[k]) /\ Trim(JsString(FragmentValues.v[k])) # <<>>

\* C26: for each of email, lastName, firstName, phone and mobile the
\* contact of the request holds the field iff its source is a string or a
\* number whose trimmed string form is not empty, with that trimmed form as
\* value (for email, one that passes isValidEmail); an undefined or null
\* source is skipped; a source that is an object or an array makes the item
\* fail with ContactFieldInvalid before any request.
C26_ContactFieldsCopied ==
  FragmentBuilt =>
    /\ \A r \in pending :
         /\ "contact" \in DOMAIN r.req.body
         /\ \A f \in ContactFragmentFields :
              \E x \in {Get(FragmentValues.v, f)} :
              \E contact \in {r.req.body["contact"].v} :
                IF x.t \in {"undefined", "null"} THEN f \notin DOMAIN contact
                ELSE /\ x.t \in {"string", "number"}
                     /\ IF Trim(JsString(x)) = <<>> THEN f \notin DOMAIN contact
                        ELSE Get(contact, f) = Str(Trim(JsString(x)))
                     /\ (f = "email" /\ f \in DOMAIN contact) =>
                          (RFC5322_EMAIL_PATTERN(contact[f].v)
                             /\ Len(contact[f].v) <= EMAIL_MAX_LENGTH)
    /\ (\E f \in ContactFragmentFields : Get(FragmentValues.v, f).t \in {"object", "array"}) =>
         /\ pending = {}
         /\ LastFailed =>
              /\ sent[IF pc = "raised" THEN i ELSE i - 1] = 0
              /\ LastFailure.kind \in {"ContactFieldInvalid", "FieldTooLong",
                                        "InvalidEmailFormat"}
              /\ Get(FragmentValues.v, "email").t \in {"undefined", "null"} =>
                   LastFailure.kind = "ContactFieldInvalid"
    /\ (LastFailed /\ LastFailure.kind = "ContactFieldInvalid") =>
         \E f \in ContactFragmentFields : Get(FragmentValues.v, f).t \in {"object", "array"}

\* the operations that push one record for an item that succeeds
SingleResultOperations == {"create", "get", "update", "delete", "addComment"}

\* C27: with continueOnFail on, in a single-result operation execute never
\* raises and has pushed exactly one record for every item it is done
\* with, paired to the index of the item, in input order: the error record
\* if the item failed, else the response of the API or the success record
\* of a delete; what execute returns holds one record per input item.
C27_ExactlyOneRecord ==
  (continueOnFail /\ operation \in SingleResultOperations) =>
    /\ pc # "raised"
    /\ thrown = NoError
    /\ Len(returnData) = i
    /\ \A k \in 1..Len(returnData) :
         /\ returnData[k].pairedItem = k - 1
         /\ IF IsError(failures[k - 1])
            THEN returnData[k].json.t = "error"
            ELSE /\ returnData[k].json.t = "object"
                 /\ IF operation = "delete"
                    THEN Get(returnData[k].json.v, "success") = Bool(TRUE)
                    ELSE returnData[k].json = RESPONSE
    /\ pc = "done" =>
         /\ output.returned
         /\ output.data = returnData
         /\ Len(output.data) = nItems

\* execute returned two records for two items of a delete: the error record
\* of the first, then the success record of the second
C27_Witness ==
  /\ continueOnFail
  /\ operation = "delete"
  /\ pc = "done"
  /\ nItems = 2
  /\ Len(output.data) = 2
  /\ output.data[1].json.t = "error"
  /\ output.data[1].pairedItem = 0
  /\ Get(output.data[2].json.v, "success") = Bool(TRUE)
  /\ output.data[2].pairedItem = 1

\* C28: getAllPaginatedItems with page size L >= 1 against a finite collection
\* comes to an end (it returns or throws); it has no page cap of its own: a
\* full page is always followed by the request of the next page, whatever the
\* number of pages already read, and it returns only after a page shorter
\* than L.
C28_TerminatesWithoutPageCap ==
  /\ <>(hpc \in {"returned", "threw"})
  /\ [](hpc = "returned" =>
          (Len(hpages) > 0 /\ hpages[Len(hpages)] < hcall.limit /\ pending = {}))
  /\ [][(/\ hpc = "await"
         /\ Len(hpages') = Len(hpages) + 1
         /\ hpages'[Len(hpages')] >= hcall.limit)
        => (hpc' = "loop" /\ from' = from + hcall.limit)]_vars
  /\ [](hpc = "loop" => ENABLED HelperRequest)

\* L = 1 against MaxSource items: MaxSource full pages, then the empty one
C28_Witness ==
  /\ hpc = "returned"
  /\ hcall.limit = 1
  /\ source.size = MaxSource
  /\ source.key = hcall.dataKey
  /\ Len(hlog) = MaxSource + 1
  /\ \A k \in 1..MaxSource : hpages[k] = 1
  /\ hpages[MaxSource + 1] = 0

\* key k of the body is as it was before the call
Untouched(b, b0, k) ==
  IF k \in DOMAIN b0 THEN k \in DOMAIN b /\ b[k] = b0[k] ELSE k \notin DOMAIN b

\* key k of the body holds the source value, or is as it was before the
\* call when the source has none
WrittenFromSource(b, b0, src, k) ==
  IF Get(src, k).t # "undefined" THEN k \in DOMAIN b /\ b[k] = Get(src, k)
  ELSE Untouched(b, b0, k)

ListedFields == {params.fields[n] : n \in 1..Len(params.fields)}

\* what a call of addOptionalFields leaves outside its field list: keys of
\* the body outside the list keep their value and no key outside the list
\* is added
FrameOutsideList ==
  \A k \in (DOMAIN params.body \cup DOMAIN params.source \cup DOMAIN plan.body)
            \ ListedFields :
    Untouched(plan.body, params.body, k)

C29_WitnessThrown ==
  /\ pc = "threw"
  /\ thrown.kind = "InvalidIdentifierFormat"
  /\ params.fields = TICKET_UPDATE_OPTIONAL_FIELDS
  /\ "subject" \in DOMAIN params.body
  /\ Get(params.source, "subject") = Str(TEXT)
  /\ Get(plan.body, "subject") = params.body["subject"]
  /\ Get(plan.body, "subject") # Str(TEXT)
  /\ Get(params.body, "accountId") # Str(TEN_DIGITS)
  /\ Get(plan.body, "accountId") = Str(TEN_DIGITS)

====
